---- MODULE Spec2Model ----
(***************************************************************************)
(* A model of lifegraph: the chart object (lifegraph/lifegraph.py), its    *)
(* annotation geometry (lifegraph/core.py), the date-to-grid mapping, the  *)
(* registration calls add_life_event / add_era / add_era_span, and the     *)
(* render pass (visibility filter, then label conflict resolution).        *)
(*                                                                         *)
(* Numbers.  The program computes positions in floating-point data units   *)
(* (one row of the grid is 1.0).  The model counts in quarters of a data   *)
(* unit, so 0.25, 0.5, row averages and half heights are integers; every   *)
(* value used is a binary fraction, for which the float arithmetic of the  *)
(* program is exact.  Calendar dates are proleptic Gregorian ordinals      *)
(* (datetime.date.toordinal); the birth date is kept as <<y, m, d>>        *)
(* because relativedelta(years=n) works on the calendar fields.            *)
(***************************************************************************)
EXTENDS Integers, Sequences, FiniteSets, TLC

VARIABLES
    birthdate,            \* self.birthdate, <<year, month, day>>
    min_age,              \* self.min_age (rows)
    ymin,                 \* self.ymin (quarter units)
    ymax,                 \* self.ymax = max_age (rows)
    label_space_epsilon,  \* self.label_space_epsilon (quarter units)
    size,                 \* self.settings.size, the Papersize name
    dpi,                  \* self.settings.rcParams["figure.dpi"]
    xaxis_label,          \* self.xaxis_label
    yaxis_label,          \* self.yaxis_label
    otherParams,          \* self.settings.otherParams, the axis label keys
    annotations,          \* self.annotations
    eras,                 \* self.eras
    era_spans,            \* self.era_spans
    event_records,        \* self._event_records
    era_records,          \* self._era_records
    era_span_records,     \* self._era_span_records
    visible,              \* last render pass: indices handed to layout
    left,                 \* last render pass: the sorted left partition
    right,                \* last render pass: the sorted right partition
    final,                \* last render pass: the list layout returned
    shaded,               \* last render pass: the rows shaded for each era
    passes,               \* number of render passes so far
    config,               \* the document last written by save_config
    loaded,               \* the chart last returned by from_config
    call,                 \* the last call made on the chart and its outcome
    registered            \* history: the call that created each annotation

vars == <<birthdate, min_age, ymin, ymax, label_space_epsilon, size, dpi,
          xaxis_label, yaxis_label, otherParams, annotations, eras,
          era_spans, event_records, era_records, era_span_records,
          visible, left, right, final, shaded, passes, config, loaded,
          call, registered>>

chart == <<birthdate, min_age, ymin, ymax, label_space_epsilon, size, dpi>>
styling == <<xaxis_label, yaxis_label, otherParams>>
files == <<config, loaded>>
stored == <<annotations, eras, era_spans>>
records == <<event_records, era_records, era_span_records>>
layout == <<visible, left, right, final, shaded, passes>>

\* Python's None; every optional value of the model is a record
None == [none |-> TRUE]

(***************************************************************************)
(* Bounds of the model.                                                    *)
(***************************************************************************)
MaxAge == 4
MaxAnnotations == 2
MaxPasses == 2
MaxSameDate == 4
MaxOrdered == 3
MaxSeparated == 3

(***************************************************************************)
(* Data units.                                                             *)
(***************************************************************************)
Units(n) == 4 * n
Half(n) == n \div 2

Min(a, b) == IF a <= b THEN a ELSE b
Max(a, b) == IF a >= b THEN a ELSE b
Abs(a) == IF a >= 0 THEN a ELSE 0 - a

(***************************************************************************)
(* Calendar: datetime.date and dateutil.relativedelta(years=n).            *)
(***************************************************************************)
IsLeap(y) == (y % 4 = 0) /\ ((y % 100 # 0) \/ (y % 400 = 0))

DaysInMonth(y, m) ==
    IF m = 2 THEN (IF IsLeap(y) THEN 29 ELSE 28)
    ELSE IF m \in {4, 6, 9, 11} THEN 30 ELSE 31

RECURSIVE DaysBeforeMonth(_, _)
DaysBeforeMonth(y, m) ==
    IF m = 1 THEN 0 ELSE DaysBeforeMonth(y, m - 1) + DaysInMonth(y, m - 1)

DaysBeforeYear(y) ==
    (y - 1) * 365 + ((y - 1) \div 4) - ((y - 1) \div 100) + ((y - 1) \div 400)

\* date.toordinal()
Ordinal(d) == DaysBeforeYear(d[1]) + DaysBeforeMonth(d[1], d[2]) + d[3]

\* d + relativedelta(years=n): the year advances, the day is clipped to the
\* length of the month (Feb 29 becomes Feb 28 in a common year)
AddYears(d, n) == <<d[1] + n, d[2], Min(d[3], DaysInMonth(d[1] + n, d[2]))>>

(***************************************************************************)
(* The grid limits set by Lifegraph.__init__.                              *)
(***************************************************************************)
xmax == 52
xmin == 0 - Half(Units(1))
LeftOffset == 6
RightOffset == 5
HintEdge == 10

(***************************************************************************)
(* Lifegraph.__validate_date: TRUE when it raises ValueError.              *)
(* ValidateDateRaisesIn is the method for a chart with birth date b and    *)
(* ymax = hi.                                                              *)
(***************************************************************************)
ValidateDateRaisesIn(date, b, hi) ==
    LET max_date == Ordinal(AddYears(b, hi))
    IN  date < Ordinal(b) \/ date > max_date

\* __validate_date rejecting the last day, birthdate + max_age years
ValidateDateRaisesLastDay(date) ==
    LET max_date == Ordinal(AddYears(birthdate, ymax))
    IN  date < Ordinal(birthdate) \/ date >= max_date

ValidateDateRaises(date) == ValidateDateRaisesIn(date, birthdate, ymax)

\* __to_date_position with the year taken as delta.days // 366
ToDatePositionYearOf366(date) ==
    LET delta == date - Ordinal(birthdate)
        year == delta \div 366
        start_of_year == Ordinal(AddYears(birthdate, year))
        week == (date - start_of_year) \div 7
    IN  [x |-> (week % xmax) + 1, y |-> year, date |-> date]

\* __to_date_position without the wrap at 52 weeks
ToDatePositionNoWrap(date) ==
    LET delta == date - Ordinal(birthdate)
        year == delta \div 365
        start_of_year == Ordinal(AddYears(birthdate, year))
        week == (date - start_of_year) \div 7
    IN  [x |-> week + 1, y |-> year, date |-> date]

(***************************************************************************)
(* Lifegraph.__to_date_position: the DatePosition (x = week column,        *)
(* y = year row) of an ordinal date.  // and % are Python's floor          *)
(* division and non-negative remainder, as are \div and % here.            *)
(***************************************************************************)
ToDatePosition(date) ==
    LET delta == date - Ordinal(birthdate)
        year == delta \div 365
        start_of_year == Ordinal(AddYears(birthdate, year))
        diff == date - start_of_year
        week == diff \div 7
        x == (week % xmax) + 1
    IN  [x |-> x, y |-> year, date |-> date]

(***************************************************************************)
(* Text measurement, the one service layout takes from the rendering       *)
(* backend: the size of a label in data units is a function of its text.   *)
(* "a" is a one-line label one row high, "a/b" a two-line label.           *)
(***************************************************************************)
Texts == {"a", "a/b"}
TextWidth(text) == Units(2)
TextHeight(text) == IF text = "a" THEN Units(1) ELSE Units(2)

(***************************************************************************)
(* core.py: Side, Point, Marker, Annotation and matplotlib's Bbox.         *)
(***************************************************************************)
LEFT == [name |-> "LEFT", value |-> 1]
RIGHT == [name |-> "RIGHT", value |-> 2]

Point(x, y) == [x |-> x, y |-> y]

Marker(x, y, color) ==
    [x |-> x, y |-> y, marker |-> "s", fillstyle |-> "none", color |-> color]

\* set_relpos called with (ry, rx)
RelposSwapped(twice_rx, twice_ry) == <<twice_ry, twice_rx>>

\* relpos in halves: <<0, 1>> is (0, 0.5), <<2, 1>> is (1, 0.5)
Relpos(twice_rx, twice_ry) == <<twice_rx, twice_ry>>

\* Annotation.__init__: the label position is copied from label_point
Annotation(date, text, label_point, color, event_point, put_circle_around_point, marker) ==
    [x |-> label_point.x, y |-> label_point.y, date |-> date, text |-> text,
     color |-> color, bbox |-> None, event_point |-> event_point,
     put_circle_around_point |-> put_circle_around_point,
     marker |-> marker, relpos |-> Relpos(1, 1), source_y_range |-> None]

\* the source_y_range keyword the registration calls pass to Annotation
WithSourceYRange(a, source_y_range) ==
    [a EXCEPT !.source_y_range = source_y_range]

\* Bbox properties: the corner order does not matter
BboxXmin(b) == Min(b.x0, b.x1)
BboxXmax(b) == Max(b.x0, b.x1)
BboxYmin(b) == Min(b.y0, b.y1)
BboxYmax(b) == Max(b.y0, b.y1)
BboxWidth(b) == b.x1 - b.x0

\* Annotation.overlaps
Overlaps(self, that) ==
    IF BboxXmin(self.bbox) >= BboxXmax(that.bbox)
       \/ BboxXmin(that.bbox) >= BboxXmax(self.bbox) THEN FALSE
    ELSE IF BboxYmin(self.bbox) >= BboxYmax(that.bbox)
            \/ BboxYmin(that.bbox) >= BboxYmax(self.bbox) THEN FALSE
    ELSE TRUE

\* Annotation.is_within_epsilon_of
IsWithinEpsilonOf(self, that, epsilon) ==
    IF BboxXmin(self.bbox) - epsilon > BboxXmax(that.bbox)
       \/ BboxXmin(that.bbox) - epsilon > BboxXmax(self.bbox) THEN FALSE
    ELSE IF BboxYmin(self.bbox) - epsilon > BboxYmax(that.bbox)
            \/ BboxYmin(that.bbox) - epsilon > BboxYmax(self.bbox) THEN FALSE
    ELSE TRUE

\* get_xy_correction measuring the height the two boxes share
GetXYCorrectionByOverlap(self, that, epsilon) ==
    <<Min(BboxXmax(self.bbox), BboxXmax(that.bbox))
        - Max(BboxXmin(self.bbox), BboxXmin(that.bbox)) + epsilon,
      Min(BboxYmax(self.bbox), BboxYmax(that.bbox))
        - Max(BboxYmin(self.bbox), BboxYmin(that.bbox)) + epsilon>>

\* Annotation.get_xy_correction
GetXYCorrection(self, that, epsilon) ==
    <<Abs(BboxXmax(that.bbox) - BboxXmin(self.bbox)) + epsilon,
      Abs(BboxYmax(that.bbox) - BboxYmin(self.bbox)) + epsilon>>

\* update_Y_with_correction moving the label and leaving its box behind
UpdateYWithCorrectionLabelOnly(a, correction) ==
    [a EXCEPT !.y = @ + correction[2]]

\* Annotation.update_Y_with_correction
UpdateYWithCorrection(a, correction) ==
    [a EXCEPT !.y = @ + correction[2],
              !.bbox = [@ EXCEPT !.y0 = @ + correction[2],
                                 !.y1 = @ + correction[2]]]

(***************************************************************************)
(* Lifegraph.__sanitize_hint.  A hint is None, a Point or a tuple, in data *)
(* units; the two tests run one after the other on the possibly updated x. *)
(* A tuple is copied into a new Point; a Point is the caller's own object  *)
(* and its x is overwritten in place.  SanitizeHintIn is the function for  *)
(* a chart whose window is min_age = lo, ymax = hi.                        *)
(***************************************************************************)
TupleHint(x, y) == [x |-> x, y |-> y, tuple |-> TRUE]
IsPoint(hint) == hint # None /\ "tuple" \notin DOMAIN hint

\* __sanitize_hint snapping a hint that stands exactly `edge` from the grid
SanitizeHintInSnappingEdge(hint, lo, hi) ==
    IF hint = None THEN None
    ELSE IF hint.y >= Units(lo) /\ hint.y <= Units(hi)
    THEN LET x1 == IF (hint.x >= Half(Units(xmax)) /\ hint.x < Units(xmax))
                      \/ hint.x >= Units(xmax) + Units(HintEdge)
                   THEN Units(xmax) ELSE hint.x
             x2 == IF (x1 > 0 /\ x1 < Half(Units(xmax)))
                      \/ x1 <= 0 - Units(HintEdge)
                   THEN 0 ELSE x1
         IN  Point(x2, hint.y)
    ELSE Point(hint.x, hint.y)

SanitizeHintIn(hint, lo, hi) ==
    IF hint = None THEN None
    ELSE IF hint.y >= Units(lo) /\ hint.y <= Units(hi)
    THEN LET x1 == IF (hint.x >= Half(Units(xmax)) /\ hint.x < Units(xmax))
                      \/ hint.x > Units(xmax) + Units(HintEdge)
                   THEN Units(xmax) ELSE hint.x
             x2 == IF (x1 > 0 /\ x1 < Half(Units(xmax)))
                      \/ x1 < 0 - Units(HintEdge)
                   THEN 0 ELSE x1
         IN  Point(x2, hint.y)
    ELSE Point(hint.x, hint.y)

SanitizeHint(hint) == SanitizeHintIn(hint, min_age, ymax)

\* __get_label_point accepting a hint together with a side
GetLabelPointRaisesNever(hint, side) == FALSE

(***************************************************************************)
(* Lifegraph.__get_label_point; GetLabelPointRaises is its ValueError.     *)
(***************************************************************************)
GetLabelPointRaises(hint, side) == hint # None /\ side # None

\* the hint object a registration record refers to, once the call is over:
\* a Point that reached __sanitize_hint carries the sanitized x
HintAfterCallIn(hint, side, lo, hi) ==
    IF IsPoint(hint) /\ ~GetLabelPointRaises(hint, side)
    THEN SanitizeHintIn(hint, lo, hi) ELSE hint

HintAfterCall(hint, side) == HintAfterCallIn(hint, side, min_age, ymax)

GetLabelPoint(hint, side, default_x, default_y, is_Era) ==
    LET h == SanitizeHint(hint)
        labelx0 == IF h # None THEN h.x ELSE default_x
        labely == IF h # None THEN h.y ELSE default_y
        labelx == IF side # None
                  THEN (IF side = LEFT
                        THEN (IF is_Era THEN Units(1) ELSE 0)
                        ELSE Units(xmax))
                  ELSE labelx0
    IN  Point(labelx, labely)

(***************************************************************************)
(* Lifegraph.__set_annotation_bbox: the text is measured centred on the    *)
(* label position (ha='center', va='center'); the y axis is inverted, so   *)
(* the first corner of the box in data units is the lower one on screen.   *)
(***************************************************************************)
SetAnnotationBbox(a) ==
    LET hw == Half(TextWidth(a.text))
        hh == Half(TextHeight(a.text))
    IN  [a EXCEPT !.bbox = [x0 |-> a.x - hw, y0 |-> a.y + hh,
                            x1 |-> a.x + hw, y1 |-> a.y - hh]]

\* __is_annotation_visible requiring the source to end strictly inside
IsAnnotationVisibleStrict(a) ==
    IF a.source_y_range = None THEN TRUE
    ELSE a.source_y_range.hi > min_age /\ a.source_y_range.lo < ymax

(***************************************************************************)
(* Lifegraph.__is_annotation_visible.                                      *)
(***************************************************************************)
IsAnnotationVisible(a) ==
    IF a.source_y_range = None THEN TRUE
    ELSE LET y_lo == a.source_y_range.lo
             y_hi == a.source_y_range.hi
         IN  y_hi >= min_age /\ y_lo < ymax

(***************************************************************************)
(* Lifegraph.__resolve_annotation_conflicts, step 1: measure one label,    *)
(* set its initial position and relpos, and name the list it joins.        *)
(***************************************************************************)
RightEdge == Units(xmax) + Units(RightOffset)
LeftEdge == xmin - Units(LeftOffset)

InitialPosition(a0) ==
    LET a == SetAnnotationBbox(a0)
        width == BboxWidth(a.bbox)
    IN  IF a.y >= Units(min_age) /\ a.y <= Units(ymax)
        THEN LET x == IF (a.x >= Half(Units(xmax)) /\ a.x < Units(xmax))
                         \/ (a.x >= Units(xmax) /\ a.x < RightEdge)
                      THEN RightEdge
                      ELSE IF (a.x >= 0 /\ a.x < Half(Units(xmax)))
                              \/ (a.x <= xmin /\ a.x > LeftEdge)
                      THEN LeftEdge - width
                      ELSE a.x
                 b == [a EXCEPT !.x = x,
                                !.bbox = [@ EXCEPT !.x0 = x, !.x1 = x + width]]
             IN  IF x >= Half(Units(xmax))
                 THEN [a |-> [b EXCEPT !.relpos = Relpos(0, 1)], list |-> "right"]
                 ELSE [a |-> [b EXCEPT !.relpos = Relpos(2, 1)], list |-> "left"]
        ELSE IF a.y < Units(min_age)
        THEN [a |-> [a EXCEPT !.relpos = Relpos(1, 0)], list |-> "right"]
        ELSE [a |-> [a EXCEPT !.relpos = Relpos(1, 2)], list |-> "right"]

(***************************************************************************)
(* list.sort(key=...): a stable sort of a list of annotation indices by    *)
(* the pairs keys[i] compared lexicographically, as Python compares        *)
(* tuples.                                                                 *)
(***************************************************************************)
\* a Python list built element by element: the sequence of f's values
AsList(f) == f \o <<>>

KeyLess(k1, k2) == k1[1] < k2[1] \/ (k1[1] = k2[1] /\ k1[2] < k2[2])

SortByKey(keys, lst) ==
    LET n == Len(lst)
        Before(q, p) == KeyLess(keys[lst[q]], keys[lst[p]])
                        \/ (keys[lst[q]] = keys[lst[p]] /\ q < p)
        Rank(p) == Cardinality({q \in 1..n : Before(q, p)})
    IN  AsList([r \in 1..n |-> lst[CHOOSE p \in 1..n : Rank(p) = r - 1]])

LeftKey(a) == <<a.event_point.y, a.event_point.x>>
\* right.sort with the key that left.sort uses
RightKeyAscending(a) == <<a.event_point.y, a.event_point.x>>

RightKey(a) == <<a.event_point.y, 0 - a.event_point.x>>

(***************************************************************************)
(* Step 3 of __resolve_annotation_conflicts.  CompareWithChecked is the    *)
(* inner loop "for checked in _f" from its j-th element on, for the        *)
(* candidate `unchecked` that stands at place k of the sorted list;        *)
(* SeparateFrom is the outer loop "for unchecked in lst" from place k on.  *)
(***************************************************************************)
\* lifegraph.py:833-836, the first test of one comparison
CorrectOverlap(unchecked, checked) ==
    IF Overlaps(unchecked, checked)
    THEN UpdateYWithCorrection(unchecked,
             GetXYCorrection(unchecked, checked, label_space_epsilon))
    ELSE unchecked

\* lifegraph.py:837-839, the second test of one comparison
NudgeWithinEpsilon(unchecked, checked) ==
    IF IsWithinEpsilonOf(unchecked, checked, label_space_epsilon)
    THEN UpdateYWithCorrection(unchecked, <<0, label_space_epsilon>>)
    ELSE unchecked

RECURSIVE CompareWithChecked(_, _, _, _, _)
CompareWithChecked(unchecked, anns, lst, j, k) ==
    IF j >= k THEN unchecked
    ELSE LET checked == anns[lst[j]]
             u1 == CorrectOverlap(unchecked, checked)
             u2 == NudgeWithinEpsilon(u1, checked)
         IN  CompareWithChecked(u2, anns, lst, j + 1, k)

RECURSIVE SeparateFrom(_, _, _)
SeparateFrom(anns, lst, k) ==
    IF k > Len(lst) THEN anns
    ELSE SeparateFrom(
             [anns EXCEPT ![lst[k]] =
                 CompareWithChecked(anns[lst[k]], anns, lst, 1, k)],
             lst, k + 1)

\* __resolve_annotation_conflicts returning the list placed last
ResolveAnnotationConflictsLastList(anns, vis) ==
    LET InVis(i) == \E p \in 1..Len(vis) : vis[p] = i
        placed == AsList([i \in 1..Len(anns) |->
                             IF InVis(i) THEN InitialPosition(anns[i])
                             ELSE [a |-> anns[i], list |-> "none"]])
        anns1 == AsList([i \in 1..Len(anns) |-> placed[i].a])
        IsLeft(i) == placed[i].list = "left"
        IsRight(i) == placed[i].list = "right"
        l == SortByKey([i \in 1..Len(anns) |-> LeftKey(anns1[i])],
                       SelectSeq(vis, IsLeft))
        r == SortByKey([i \in 1..Len(anns) |-> RightKey(anns1[i])],
                       SelectSeq(vis, IsRight))
        separated == SeparateFrom(SeparateFrom(anns1, l, 1), r, 1)
        anns2 == [i \in 1..Len(anns) |-> separated[i]]
    IN  [annotations |-> anns2, left |-> l, right |-> r, final |-> r]

(***************************************************************************)
(* Lifegraph.__resolve_annotation_conflicts on the annotations whose       *)
(* indices are in vis: the annotation objects are changed in place, so     *)
(* the result carries the whole list of annotations after the pass.        *)
(***************************************************************************)
ResolveAnnotationConflicts(anns, vis) ==
    LET InVis(i) == \E p \in 1..Len(vis) : vis[p] = i
        placed == AsList([i \in 1..Len(anns) |->
                             IF InVis(i) THEN InitialPosition(anns[i])
                             ELSE [a |-> anns[i], list |-> "none"]])
        anns1 == AsList([i \in 1..Len(anns) |-> placed[i].a])
        IsLeft(i) == placed[i].list = "left"
        IsRight(i) == placed[i].list = "right"
        l == SortByKey([i \in 1..Len(anns) |-> LeftKey(anns1[i])],
                       SelectSeq(vis, IsLeft))
        r == SortByKey([i \in 1..Len(anns) |-> RightKey(anns1[i])],
                       SelectSeq(vis, IsRight))
        separated == SeparateFrom(SeparateFrom(anns1, l, 1), r, 1)
        anns2 == [i \in 1..Len(anns) |-> separated[i]]
    IN  [annotations |-> anns2, left |-> l, right |-> r, final |-> l \o r]

\* __draw_annotations handing every stored annotation to layout
VisibleIndicesUnfiltered(anns) == [i \in 1..Len(anns) |-> i]

(***************************************************************************)
(* Lifegraph.__draw_annotations: the visible annotations, in stored order. *)
(***************************************************************************)
VisibleIndices(anns) ==
    LET IsVisible(i) == IsAnnotationVisible(anns[i])
    IN  SelectSeq([i \in 1..Len(anns) |-> i], IsVisible)

(***************************************************************************)
(* The registration calls.  Each appends its record, then computes the     *)
(* label point, then appends the annotation, in the order of the code; a   *)
(* ValueError ends the call where it is raised.                            *)
(***************************************************************************)
NumRegistrations ==
    Len(event_records) + Len(era_records) + Len(era_span_records)

Average(a, b) == Half(Units(a) + Units(b))

\* start_date + (end_date - start_date)/2 on dates: whole days, rounded down
MiddleDate(start_date, end_date) == start_date + ((end_date - start_date) \div 2)

\* the call and the arguments it was given, as the caller passed them
Passed(op, text, dates, color, hint, side, flag) ==
    [op |-> op, text |-> text, dates |-> dates, color |-> color,
     hint |-> hint, side |-> side, flag |-> flag]

Raise(passed) ==
    call' = [op |-> passed.op, dates |-> passed.dates, hint |-> passed.hint,
             side |-> passed.side, text |-> passed.text,
             color |-> passed.color, flag |-> passed.flag,
             raised |-> "ValueError"]

Return(passed) ==
    call' = [op |-> passed.op, dates |-> passed.dates, hint |-> passed.hint,
             side |-> passed.side, text |-> passed.text,
             color |-> passed.color, flag |-> passed.flag,
             raised |-> "no"]

\* the dicts appended to _event_records, _era_records, _era_span_records
EventRecord(text, date, color, hint, side, color_square) ==
    [text |-> text, date |-> date, color |-> color,
     hint |-> HintAfterCall(hint, side), side |-> side,
     color_square |-> color_square]

EraRecord(text, start_date, end_date, color, side, alpha) ==
    [text |-> text, start_date |-> start_date, end_date |-> end_date,
     color |-> color, side |-> side, alpha |-> alpha]

EraSpanRecord(text, start_date, end_date, color, hint, side, color_start_and_end_markers) ==
    [text |-> text, start_date |-> start_date, end_date |-> end_date,
     color |-> color, hint |-> HintAfterCall(hint, side), side |-> side,
     color_start_and_end_markers |-> color_start_and_end_markers]

\* core.py: Era and EraSpan
Era(text, start, end, color, alpha) ==
    [text |-> text, start |-> start, end |-> end, color |-> color,
     alpha |-> alpha]

EraSpan(text, start, end, color, start_marker, end_marker) ==
    [text |-> text, start |-> start, end |-> end, color |-> color,
     start_marker |-> start_marker, end_marker |-> end_marker]

\* Lifegraph.add_life_event
AddLifeEvent(text, date, color, hint, side, color_square) ==
    LET passed == Passed("add_life_event", text, <<date>>, color, hint, side,
                         color_square)
    IN
    /\ IF ValidateDateRaises(date)
       THEN /\ Raise(passed)
            /\ UNCHANGED <<chart, styling, files, stored, records, layout, registered>>
       ELSE LET position == ToDatePosition(date)
                rec == EventRecord(text, date, color, hint, side, color_square)
                default_x == IF position.x >= Half(xmax)
                             THEN Units(xmax) ELSE 0
                label_point == GetLabelPoint(hint, side, default_x,
                                             Units(position.y), FALSE)
                marker == IF color_square
                          THEN Marker(Units(position.x), Units(position.y), color)
                          ELSE None
                a == WithSourceYRange(
                         Annotation(date, text, label_point, color,
                                    Point(Units(position.x), Units(position.y)),
                                    TRUE, marker),
                         [lo |-> position.y, hi |-> position.y])
            IN  /\ event_records' = Append(event_records, rec)
                /\ IF GetLabelPointRaises(hint, side)
                   THEN /\ Raise(passed)
                        /\ UNCHANGED <<chart, styling, files, stored, era_records,
                                       era_span_records, layout, registered>>
                   ELSE /\ annotations' = Append(annotations, a)
                        /\ Return(passed)
                        /\ registered' = Append(registered, call')
                        /\ UNCHANGED <<chart, styling, files, eras, era_spans, era_records,
                                       era_span_records, layout>>

\* Lifegraph.add_era
AddEra(text, start_date, end_date, color, side, alpha) ==
    LET passed == Passed("add_era", text, <<start_date, end_date>>, color,
                         None, side, alpha)
    IN
    /\ IF ValidateDateRaises(start_date) \/ ValidateDateRaises(end_date)
       THEN /\ Raise(passed)
            /\ UNCHANGED <<chart, styling, files, stored, records, layout, registered>>
       ELSE LET start_position == ToDatePosition(start_date)
                end_position == ToDatePosition(end_date)
                rec == EraRecord(text, start_date, end_date, color, side, alpha)
                era == Era(text, start_position, end_position, color, alpha)
                label_point == GetLabelPoint(None, side, Units(xmax),
                                   Average(start_position.y, end_position.y),
                                   TRUE)
                middle_date == MiddleDate(start_date, end_date)
                a == WithSourceYRange(
                         Annotation(middle_date, text, label_point, color,
                                    label_point, FALSE, None),
                         [lo |-> start_position.y, hi |-> end_position.y])
            IN  /\ era_records' = Append(era_records, rec)
                /\ eras' = Append(eras, era)
                /\ annotations' = Append(annotations, a)
                /\ Return(passed)
                /\ registered' = Append(registered, call')
                /\ UNCHANGED <<chart, styling, files, era_spans, event_records,
                               era_span_records, layout>>

\* Lifegraph.add_era_span
AddEraSpan(text, start_date, end_date, color, hint, side, color_start_and_end_markers) ==
    LET passed == Passed("add_era_span", text, <<start_date, end_date>>,
                         color, hint, side, color_start_and_end_markers)
    IN
    /\ IF ValidateDateRaises(start_date) \/ ValidateDateRaises(end_date)
       THEN /\ Raise(passed)
            /\ UNCHANGED <<chart, styling, files, stored, records, layout, registered>>
       ELSE LET rec == EraSpanRecord(text, start_date, end_date, color, hint,
                                     side, color_start_and_end_markers)
                start_position == ToDatePosition(start_date)
                end_position == ToDatePosition(end_date)
                label_point == GetLabelPoint(hint, side, Units(xmax),
                                   Average(start_position.y, end_position.y),
                                   FALSE)
                start_marker == IF color_start_and_end_markers
                                THEN Marker(Units(start_position.x),
                                            Units(start_position.y), color)
                                ELSE None
                end_marker == IF color_start_and_end_markers
                              THEN Marker(Units(end_position.x),
                                          Units(end_position.y), color)
                              ELSE None
                span == EraSpan(text, start_position, end_position, color,
                                start_marker, end_marker)
                middle_date == MiddleDate(start_date, end_date)
                event_point == Point(Average(start_position.x, end_position.x),
                                     Average(start_position.y, end_position.y))
                a == WithSourceYRange(
                         Annotation(middle_date, text, label_point, color,
                                    event_point, FALSE, None),
                         [lo |-> start_position.y, hi |-> end_position.y])
            IN  /\ era_span_records' = Append(era_span_records, rec)
                /\ IF GetLabelPointRaises(hint, side)
                   THEN /\ Raise(passed)
                        /\ UNCHANGED <<chart, styling, files, stored, event_records,
                                       era_records, layout, registered>>
                   ELSE /\ era_spans' = Append(era_spans, span)
                        /\ annotations' = Append(annotations, a)
                        /\ Return(passed)
                        /\ registered' = Append(registered, call')
                        /\ UNCHANGED <<chart, styling, files, eras, event_records,
                                       era_records, layout>>

(***************************************************************************)
(* The registration calls against core.py as it stands.  Python raises     *)
(* TypeError for a keyword argument that the called function does not      *)
(* name: Annotation.__init__ names date, text, label_point, color, bbox,   *)
(* event_point, put_circle_around_point, marker and relpos, and each       *)
(* registration call also passes source_y_range.  The TypeError leaves     *)
(* what the call appended before it constructs the Annotation.             *)
(***************************************************************************)
AnnotationParameters ==
    {"date", "text", "label_point", "color", "bbox", "event_point",
     "put_circle_around_point", "marker", "relpos"}

AnnotationInitRaises(keywords) == ~(keywords \subseteq AnnotationParameters)

RaiseTypeError(passed) ==
    call' = [op |-> passed.op, dates |-> passed.dates, hint |-> passed.hint,
             side |-> passed.side, text |-> passed.text,
             color |-> passed.color, flag |-> passed.flag,
             raised |-> "TypeError"]

\* Lifegraph.add_life_event, Annotation(...) at lines 264-266
AddLifeEventAsBuilt(text, date, color, hint, side, color_square) ==
    IF /\ ~ValidateDateRaises(date)
       /\ ~GetLabelPointRaises(hint, side)
       /\ AnnotationInitRaises({"label_point", "color", "event_point",
                                "marker", "source_y_range"})
    THEN /\ event_records' =
               Append(event_records,
                      EventRecord(text, date, color, hint, side, color_square))
         /\ RaiseTypeError(Passed("add_life_event", text, <<date>>, color,
                                  hint, side, color_square))
         /\ UNCHANGED <<chart, styling, files, stored, era_records,
                        era_span_records, layout, registered>>
    ELSE AddLifeEvent(text, date, color, hint, side, color_square)

\* Lifegraph.add_era, Annotation(...) at lines 328-330
AddEraAsBuilt(text, start_date, end_date, color, side, alpha) ==
    IF /\ ~ValidateDateRaises(start_date)
       /\ ~ValidateDateRaises(end_date)
       /\ AnnotationInitRaises({"label_point", "color", "event_point",
                                "put_circle_around_point", "source_y_range"})
    THEN /\ era_records' =
               Append(era_records,
                      EraRecord(text, start_date, end_date, color, side, alpha))
         /\ eras' = Append(eras, Era(text, ToDatePosition(start_date),
                                     ToDatePosition(end_date), color, alpha))
         /\ RaiseTypeError(Passed("add_era", text, <<start_date, end_date>>,
                                  color, None, side, alpha))
         /\ UNCHANGED <<chart, styling, files, annotations, era_spans,
                        event_records, era_span_records, layout, registered>>
    ELSE AddEra(text, start_date, end_date, color, side, alpha)

\* Lifegraph.add_era_span, Annotation(...) at lines 405-407
AddEraSpanAsBuilt(text, start_date, end_date, color, hint, side, color_start_and_end_markers) ==
    IF /\ ~ValidateDateRaises(start_date)
       /\ ~ValidateDateRaises(end_date)
       /\ ~GetLabelPointRaises(hint, side)
       /\ AnnotationInitRaises({"label_point", "color", "event_point",
                                "put_circle_around_point", "source_y_range"})
    THEN LET start_position == ToDatePosition(start_date)
              end_position == ToDatePosition(end_date)
              start_marker == IF color_start_and_end_markers
                              THEN Marker(Units(start_position.x),
                                          Units(start_position.y), color)
                              ELSE None
              end_marker == IF color_start_and_end_markers
                            THEN Marker(Units(end_position.x),
                                        Units(end_position.y), color)
                            ELSE None
         IN  /\ era_span_records' =
                   Append(era_span_records,
                          EraSpanRecord(text, start_date, end_date, color,
                                        hint, side,
                                        color_start_and_end_markers))
             /\ era_spans' =
                   Append(era_spans,
                          EraSpan(text, start_position, end_position, color,
                                  start_marker, end_marker))
             /\ RaiseTypeError(Passed("add_era_span", text,
                                      <<start_date, end_date>>, color, hint,
                                      side, color_start_and_end_markers))
             /\ UNCHANGED <<chart, styling, files, annotations, eras,
                            event_records, era_records, layout, registered>>
    ELSE AddEraSpan(text, start_date, end_date, color, hint, side,
                    color_start_and_end_markers)

\* __draw_eras shading every row from the era's first to its last
DrawEraUnclipped(era) ==
    { [row |-> y,
       first |-> IF y = era.start.y THEN era.start.x ELSE 1,
       last |-> IF y # era.start.y /\ y = era.end.y THEN era.end.x ELSE xmax] :
         y \in era.start.y..era.end.y }

(***************************************************************************)
(* Lifegraph.__draw_eras, for one era: the horizontal spans it shades,     *)
(* each a row and the first and last grid column covered.                  *)
(***************************************************************************)
DrawEra(era) ==
    IF era.end.y < min_age \/ era.start.y >= ymax THEN {}
    ELSE LET row_start == Max(era.start.y, min_age)
             row_end == Min(era.end.y, ymax - 1)
         IN  { [row |-> y,
                first |-> IF y = era.start.y THEN era.start.x ELSE 1,
                last |-> IF y # era.start.y /\ y = era.end.y
                         THEN era.end.x ELSE xmax] :
                  y \in row_start..row_end }

(***************************************************************************)
(* Lifegraph.draw / save / show: one render pass.  __draw_annotations      *)
(* filters the visible annotations and lays them out; nothing else in the  *)
(* pass writes to the chart's lists; __draw_eras shades the eras' rows.     *)
(***************************************************************************)
Draw ==
    /\ passes < MaxPasses
    /\ LET vis == VisibleIndices(annotations)
           res == ResolveAnnotationConflicts(annotations, vis)
       IN  /\ visible' = vis
           /\ annotations' = res.annotations
           /\ left' = res.left
           /\ right' = res.right
           /\ final' = res.final
    /\ shaded' = [i \in 1..Len(eras) |-> DrawEra(eras[i])]
    /\ passes' = passes + 1
    /\ call' = [op |-> "draw", dates |-> <<>>, hint |-> None, side |-> None,
                raised |-> "no"]
    /\ UNCHANGED <<chart, styling, files, eras, era_spans, records, registered>>

(***************************************************************************)
(* The chart after Lifegraph.__init__: 0 <= min_age < max_age, empty       *)
(* lists.                                                                  *)
(***************************************************************************)
DefaultOtherParams ==
    [xlabel_position |-> <<20, 105>>, xlabel_color |-> None,
     xlabel_fontsize |-> None,
     ylabel_position |-> <<-3, 95>>, ylabel_color |-> None,
     ylabel_fontsize |-> None]

Constructed(b, lo, hi, eps) ==
    /\ birthdate = b
    /\ min_age = lo
    /\ ymin = Units(lo) - Half(Units(1))
    /\ ymax = hi
    /\ label_space_epsilon = eps
    /\ size = "A3"
    /\ dpi = 300
    /\ xaxis_label = "Week of the Year"
    /\ yaxis_label = "Age"
    /\ otherParams = DefaultOtherParams
    /\ shaded = <<>>
    /\ config = None
    /\ loaded = None
    /\ annotations = <<>>
    /\ eras = <<>>
    /\ era_spans = <<>>
    /\ event_records = <<>>
    /\ era_records = <<>>
    /\ era_span_records = <<>>
    /\ visible = <<>>
    /\ left = <<>>
    /\ right = <<>>
    /\ final = <<>>
    /\ passes = 0
    /\ registered = <<>>

\* __init__ rejecting only a min_age above max_age
InitRaisesAboveMaxAge(b, lo, hi) == b = None \/ lo < 0 \/ lo > hi

(***************************************************************************)
(* Lifegraph.__init__: InitRaises is its ValueError (no birth date, a      *)
(* negative min_age, a min_age not below max_age); NewLifegraph is the     *)
(* constructor call on a chart that does not exist yet.                    *)
(***************************************************************************)
InitRaises(b, lo, hi) == b = None \/ lo < 0 \/ lo >= hi

NewLifegraph(b, sz, d, eps, hi, lo) ==
    /\ call.op = "new"
    /\ IF InitRaises(b, lo, hi)
       THEN /\ call' = [op |-> "Lifegraph", birthdate |-> b, min_age |-> lo,
                        max_age |-> hi, raised |-> "ValueError"]
            /\ UNCHANGED <<chart, styling, files, stored, records, layout,
                           registered>>
       ELSE /\ birthdate' = b
            /\ min_age' = lo
            /\ ymin' = Units(lo) - Half(Units(1))
            /\ ymax' = hi
            /\ label_space_epsilon' = eps
            /\ size' = sz
            /\ dpi' = d
            /\ xaxis_label' = "Week of the Year"
            /\ yaxis_label' = "Age"
            /\ otherParams' = DefaultOtherParams
            /\ annotations' = <<>>
            /\ eras' = <<>>
            /\ era_spans' = <<>>
            /\ event_records' = <<>>
            /\ era_records' = <<>>
            /\ era_span_records' = <<>>
            /\ visible' = <<>>
            /\ left' = <<>>
            /\ right' = <<>>
            /\ final' = <<>>
            /\ shaded' = <<>>
            /\ passes' = 0
            /\ registered' = <<>>
            /\ call' = [op |-> "Lifegraph", birthdate |-> b, min_age |-> lo,
                        max_age |-> hi, raised |-> "no"]
            /\ UNCHANGED files

(***************************************************************************)
(* Lifegraph.format_x_axis and format_y_axis.  An argument is None or      *)
(* Some(value); the colour and the font size of a label are kept in        *)
(* otherParams as they were passed, None until one is given.  The ...In    *)
(* operators are the methods as functions of the chart's styling           *)
(* <<xaxis_label, yaxis_label, otherParams>> and return the styling after  *)
(* the call.                                                               *)
(***************************************************************************)
Some(v) == [some |-> v]

\* format_x_axis putting every attribute that was not given back to its
\* default
FormatXAxisInResetting(st, text, positionx, positiony, color, fontsize) ==
    [xaxis_label |-> IF text # None THEN text.some ELSE "Week of the Year",
     yaxis_label |-> st.yaxis_label,
     otherParams |->
         [st.otherParams EXCEPT
             !.xlabel_position = <<IF positionx # None THEN positionx.some
                                   ELSE 20,
                                   IF positiony # None THEN positiony.some
                                   ELSE 105>>,
             !.xlabel_color = color,
             !.xlabel_fontsize = fontsize]]

FormatXAxisIn(st, text, positionx, positiony, color, fontsize) ==
    LET label == IF text # None THEN text.some ELSE st.xaxis_label
        x0 == st.otherParams.xlabel_position[1]
        y0 == st.otherParams.xlabel_position[2]
        x == IF positionx # None THEN positionx.some ELSE x0
        y == IF positiony # None THEN positiony.some ELSE y0
        p1 == [st.otherParams EXCEPT !.xlabel_position = <<x, y>>]
        p2 == IF color # None THEN [p1 EXCEPT !.xlabel_color = color] ELSE p1
        p3 == IF fontsize # None
              THEN [p2 EXCEPT !.xlabel_fontsize = fontsize] ELSE p2
    IN  [xaxis_label |-> label, yaxis_label |-> st.yaxis_label,
         otherParams |-> p3]

FormatYAxisIn(st, text, positionx, positiony, color, fontsize) ==
    LET label == IF text # None THEN text.some ELSE st.yaxis_label
        x0 == st.otherParams.ylabel_position[1]
        y0 == st.otherParams.ylabel_position[2]
        x == IF positionx # None THEN positionx.some ELSE x0
        y == IF positiony # None THEN positiony.some ELSE y0
        p1 == [st.otherParams EXCEPT !.ylabel_position = <<x, y>>]
        p2 == IF color # None THEN [p1 EXCEPT !.ylabel_color = color] ELSE p1
        p3 == IF fontsize # None
              THEN [p2 EXCEPT !.ylabel_fontsize = fontsize] ELSE p2
    IN  [xaxis_label |-> st.xaxis_label, yaxis_label |-> label,
         otherParams |-> p3]

Styling ==
    [xaxis_label |-> xaxis_label, yaxis_label |-> yaxis_label,
     otherParams |-> otherParams]

AxisArgs(text, positionx, positiony, color, fontsize) ==
    [text |-> text, positionx |-> positionx, positiony |-> positiony,
     color |-> color, fontsize |-> fontsize]

FormatXAxis(text, positionx, positiony, color, fontsize) ==
    LET st == FormatXAxisIn(Styling, text, positionx, positiony, color,
                            fontsize)
    IN  /\ xaxis_label' = st.xaxis_label
        /\ yaxis_label' = st.yaxis_label
        /\ otherParams' = st.otherParams
        /\ call' = [op |-> "format_x_axis",
                    args |-> AxisArgs(text, positionx, positiony, color,
                                      fontsize),
                    raised |-> "no"]
        /\ UNCHANGED <<chart, files, stored, records, layout, registered>>

FormatYAxis(text, positionx, positiony, color, fontsize) ==
    LET st == FormatYAxisIn(Styling, text, positionx, positiony, color,
                            fontsize)
    IN  /\ xaxis_label' = st.xaxis_label
        /\ yaxis_label' = st.yaxis_label
        /\ otherParams' = st.otherParams
        /\ call' = [op |-> "format_y_axis",
                    args |-> AxisArgs(text, positionx, positiony, color,
                                      fontsize),
                    raised |-> "no"]
        /\ UNCHANGED <<chart, files, stored, records, layout, registered>>

(***************************************************************************)
(* serialization.py.  A configuration document is a function from the keys *)
(* that are present to their values, as the dict handed to json.dump; a    *)
(* JSON list is [list |-> <<...>>]; an ISO date string is the triple of    *)
(* its calendar fields.  Colours are str values, which _serialize_color    *)
(* and _parse_color pass through.  Title, watermark, image and the max-age *)
(* label are not part of this model.                                       *)
(***************************************************************************)
CONFIG_VERSION == 1

Get(d, key, default) == IF key \in DOMAIN d THEN d[key] ELSE default
Has(d, key) == key \in DOMAIN d
NoKey == <<>>

\* the calendar fields of an ordinal date
DateFields(date) ==
    LET y == CHOOSE yy \in (date \div 366)..((date \div 365) + 1) :
                 DaysBeforeYear(yy) < date /\ date <= DaysBeforeYear(yy + 1)
        rest == date - DaysBeforeYear(y)
        m == CHOOSE mm \in 1..12 :
                 /\ DaysBeforeMonth(y, mm) < rest
                 /\ rest <= DaysBeforeMonth(y, mm) + DaysInMonth(y, mm)
    IN  <<y, m, rest - DaysBeforeMonth(y, m)>>

\* _serialize_date (date.isoformat) and _parse_date (date.fromisoformat)
SerializeDate(date) == DateFields(date)
ParseDate(iso) == Ordinal(iso)

\* _serialize_hint: a Point and a tuple are both written as [x, y]
SerializeHint(h) == IF h = None THEN None ELSE [list |-> <<h.x, h.y>>]

\* _parse_hint: a list becomes a Point
ParseHint(h) ==
    IF h = None THEN None
    ELSE IF Has(h, "list") THEN Point(h.list[1], h.list[2])
    ELSE h

\* str.lower and str.upper on the names of Side
Lower(name) ==
    IF name = "LEFT" THEN "left" ELSE IF name = "RIGHT" THEN "right" ELSE name

Upper(name) ==
    IF name = "left" THEN "LEFT" ELSE IF name = "right" THEN "RIGHT" ELSE name

\* _serialize_side: None or the lower-case name
SerializeSide(side) == IF side = None THEN None ELSE Some(Lower(side.name))

\* _parse_side of the value of an entry: Side[s.upper()]
ParseSide(s) == CHOOSE side \in {LEFT, RIGHT} : side.name = Upper(s)

\* _build_config_dict, one entry of "events", "eras" and "era_spans"
SerializeEvent(rec) ==
    LET hint == SerializeHint(rec.hint)
        side == SerializeSide(rec.side)
    IN  [text |-> rec.text, date |-> SerializeDate(rec.date),
         color |-> rec.color]
        @@ (IF hint # None THEN "hint" :> hint ELSE NoKey)
        @@ (IF side # None THEN "side" :> side.some ELSE NoKey)
        @@ (IF ~rec.color_square THEN "color_square" :> FALSE ELSE NoKey)

SerializeEra(rec) ==
    LET side == SerializeSide(rec.side)
    IN  [text |-> rec.text, start_date |-> SerializeDate(rec.start_date),
         end_date |-> SerializeDate(rec.end_date), color |-> rec.color]
        @@ (IF side # None THEN "side" :> side.some ELSE NoKey)
        @@ (IF rec.alpha # 3 THEN "alpha" :> rec.alpha ELSE NoKey)

SerializeEraSpan(rec) ==
    LET hint == SerializeHint(rec.hint)
        side == SerializeSide(rec.side)
    IN  [text |-> rec.text, start_date |-> SerializeDate(rec.start_date),
         end_date |-> SerializeDate(rec.end_date), color |-> rec.color]
        @@ (IF hint # None THEN "hint" :> hint ELSE NoKey)
        @@ (IF side # None THEN "side" :> side.some ELSE NoKey)
        @@ (IF rec.color_start_and_end_markers
            THEN "color_start_and_end_markers" :> TRUE ELSE NoKey)

\* _build_config_dict, the "styling" entry
SerializeXAxis ==
    (IF xaxis_label # "Week of the Year" THEN "text" :> xaxis_label
     ELSE NoKey)
    @@ (IF otherParams.xlabel_position # <<20, 105>>
        THEN [positionx |-> otherParams.xlabel_position[1],
              positiony |-> otherParams.xlabel_position[2]]
        ELSE NoKey)
    @@ (IF otherParams.xlabel_color # None
        THEN "color" :> otherParams.xlabel_color.some ELSE NoKey)
    @@ (IF otherParams.xlabel_fontsize # None
        THEN "fontsize" :> otherParams.xlabel_fontsize.some ELSE NoKey)

SerializeYAxis ==
    (IF yaxis_label # "Age" THEN "text" :> yaxis_label ELSE NoKey)
    @@ (IF otherParams.ylabel_position # <<-3, 95>>
        THEN [positionx |-> otherParams.ylabel_position[1],
              positiony |-> otherParams.ylabel_position[2]]
        ELSE NoKey)
    @@ (IF otherParams.ylabel_color # None
        THEN "color" :> otherParams.ylabel_color.some ELSE NoKey)
    @@ (IF otherParams.ylabel_fontsize # None
        THEN "fontsize" :> otherParams.ylabel_fontsize.some ELSE NoKey)

SerializeStyling ==
    (IF DOMAIN SerializeXAxis # {} THEN "x_axis" :> SerializeXAxis ELSE NoKey)
    @@ (IF DOMAIN SerializeYAxis # {} THEN "y_axis" :> SerializeYAxis
        ELSE NoKey)

\* _build_config_dict.  max_age is compared with the default 90 and the
\* epsilon with the default 0.2, which no chart of this model has (0.2 is
\* not a multiple of a quarter unit).
BuildConfigDict(include_styling) ==
    [version |-> CONFIG_VERSION,
     birthdate |-> SerializeDate(Ordinal(birthdate))]
    @@ (IF ymax # 90 THEN "max_age" :> ymax ELSE NoKey)
    @@ (IF size # "A3" THEN "size" :> size ELSE NoKey)
    @@ (IF dpi # 300 THEN "dpi" :> dpi ELSE NoKey)
    @@ ("label_space_epsilon" :> label_space_epsilon)
    @@ (IF event_records # <<>>
        THEN "events" :> [k \in 1..Len(event_records) |->
                             SerializeEvent(event_records[k])]
        ELSE NoKey)
    @@ (IF era_records # <<>>
        THEN "eras" :> [k \in 1..Len(era_records) |->
                           SerializeEra(era_records[k])]
        ELSE NoKey)
    @@ (IF era_span_records # <<>>
        THEN "era_spans" :> [k \in 1..Len(era_span_records) |->
                                SerializeEraSpan(era_span_records[k])]
        ELSE NoKey)
    @@ (IF include_styling /\ DOMAIN SerializeStyling # {}
        THEN "styling" :> SerializeStyling ELSE NoKey)

\* Lifegraph.save_config -> export_config
SaveConfig(include_styling) ==
    /\ config' = BuildConfigDict(include_styling)
    /\ call' = [op |-> "save_config", include_styling |-> include_styling,
                raised |-> "no"]
    /\ UNCHANGED <<chart, styling, loaded, stored, records, layout,
                   registered>>

(***************************************************************************)
(* import_config.  The chart is constructed from the document by           *)
(* cls(birthdate, size=, dpi=, label_space_epsilon=, max_age=), so its     *)
(* min_age is the constructor's default 0; the registrations are replayed  *)
(* on it in the order events, eras, era spans.  The loaded chart is given  *)
(* by its configuration, its registration records and its styling.         *)
(***************************************************************************)
ImportedChart(d) ==
    [birthdate |-> DateFields(ParseDate(d.birthdate)),
     size |-> Get(d, "size", "A3"),
     dpi |-> Get(d, "dpi", 300),
     label_space_epsilon |-> d.label_space_epsilon,
     ymax |-> Get(d, "max_age", 90),
     min_age |-> 0,
     ymin |-> Units(0) - Half(Units(1))]

EntryHint(e) == ParseHint(Get(e, "hint", None))
EntrySide(e) == IF Has(e, "side") THEN ParseSide(e.side) ELSE None

\* the record add_life_event appends when import_config replays an entry
ImportedEvent(e, g) ==
    [text |-> e.text, date |-> ParseDate(e.date), color |-> e.color,
     hint |-> HintAfterCallIn(EntryHint(e), EntrySide(e), g.min_age, g.ymax),
     side |-> EntrySide(e),
     color_square |-> Get(e, "color_square", TRUE)]

ImportedEra(e, g) ==
    [text |-> e.text, start_date |-> ParseDate(e.start_date),
     end_date |-> ParseDate(e.end_date), color |-> e.color,
     side |-> EntrySide(e), alpha |-> Get(e, "alpha", 3)]

ImportedEraSpan(e, g) ==
    [text |-> e.text, start_date |-> ParseDate(e.start_date),
     end_date |-> ParseDate(e.end_date), color |-> e.color,
     hint |-> HintAfterCallIn(EntryHint(e), EntrySide(e), g.min_age, g.ymax),
     side |-> EntrySide(e),
     color_start_and_end_markers |->
         Get(e, "color_start_and_end_markers", FALSE)]

\* a replayed call raises ValueError for a date out of range or for a hint
\* given together with a side
EntryDates(e) == IF Has(e, "date") THEN {e.date} ELSE {e.start_date, e.end_date}

ReplayRaises(e, g) ==
    \/ \E iso \in EntryDates(e) :
          ValidateDateRaisesIn(ParseDate(iso), g.birthdate, g.ymax)
    \/ GetLabelPointRaises(EntryHint(e), EntrySide(e))

ImportConfigRaises(d) ==
    \/ Get(d, "version", 1) # CONFIG_VERSION
    \/ \E key \in {"events", "eras", "era_spans"} :
          \E k \in 1..Len(Get(d, key, <<>>)) :
              ReplayRaises(d[key][k], ImportedChart(d))

AxisArg(ax, key) == IF Has(ax, key) THEN Some(ax[key]) ELSE None

ImportedStyling(d, apply_styling) ==
    LET st0 == [xaxis_label |-> "Week of the Year", yaxis_label |-> "Age",
                otherParams |-> DefaultOtherParams]
        sty == Get(d, "styling", NoKey)
        st1 == IF apply_styling /\ Has(sty, "x_axis")
               THEN LET x == sty.x_axis
                    IN  FormatXAxisIn(st0, AxisArg(x, "text"),
                            AxisArg(x, "positionx"), AxisArg(x, "positiony"),
                            AxisArg(x, "color"), AxisArg(x, "fontsize"))
               ELSE st0
    IN  IF apply_styling /\ Has(sty, "y_axis")
        THEN LET y == sty.y_axis
             IN  FormatYAxisIn(st1, AxisArg(y, "text"),
                     AxisArg(y, "positionx"), AxisArg(y, "positiony"),
                     AxisArg(y, "color"), AxisArg(y, "fontsize"))
        ELSE st1

ImportConfig(d, apply_styling) ==
    LET g == ImportedChart(d)
        events == Get(d, "events", <<>>)
        d_eras == Get(d, "eras", <<>>)
        spans == Get(d, "era_spans", <<>>)
    IN  [chart |-> g,
         event_records |-> [k \in 1..Len(events) |->
                               ImportedEvent(events[k], g)],
         era_records |-> [k \in 1..Len(d_eras) |-> ImportedEra(d_eras[k], g)],
         era_span_records |-> [k \in 1..Len(spans) |->
                                  ImportedEraSpan(spans[k], g)],
         styling |-> ImportedStyling(d, apply_styling)]

\* Lifegraph.from_config -> import_config, on the document last saved
FromConfig(apply_styling) ==
    /\ config # None
    /\ IF ImportConfigRaises(config)
       THEN /\ call' = [op |-> "from_config", apply_styling |-> apply_styling,
                        raised |-> "ValueError"]
            /\ UNCHANGED loaded
       ELSE /\ call' = [op |-> "from_config", apply_styling |-> apply_styling,
                        raised |-> "no"]
            /\ loaded' = ImportConfig(config, apply_styling)
    /\ UNCHANGED <<chart, styling, config, stored, records, layout,
                   registered>>

(***************************************************************************)
(* Spec: a chart of three rows, registrations and render passes in any     *)
(* order.  The arguments are drawn from a few dates on both halves of the  *)
(* grid, inside and outside the window and on both sides of the accepted   *)
(* range, with and without a hint or a side.                               *)
(***************************************************************************)
\* the date in week column col (1..52) of year row of this chart
DateAt(row, col) == Ordinal(AddYears(birthdate, row)) + 7 * (col - 1)
BirthDay == Ordinal(birthdate)
LastDay == Ordinal(AddYears(birthdate, ymax))

\* a hint right of the grid, level with row 2
HintRight == Point(RightEdge, Units(2))

Args(date, hint, side, text) ==
    [date |-> date, hint |-> hint, side |-> side, text |-> text]

EventArgs ==
    { Args(BirthDay, None, None, "a"),
      Args(DateAt(1, 10), None, LEFT, "a"),
      Args(DateAt(1, 10), None, RIGHT, "a"),
      Args(DateAt(1, 10), HintRight, None, "a"),
      Args(DateAt(2, 40), None, None, "a/b"),
      Args(LastDay, None, None, "a"),
      Args(DateAt(1, 10), HintRight, LEFT, "a"),
      Args(BirthDay - 1, None, None, "a"),
      Args(LastDay + 1, None, None, "a") }

RangeArgs(start_date, end_date, hint, side) ==
    [start_date |-> start_date, end_date |-> end_date, hint |-> hint,
     side |-> side]

EraArgs ==
    { RangeArgs(BirthDay, DateAt(1, 10), None, LEFT),
      RangeArgs(DateAt(1, 10), DateAt(2, 40), None, None),
      RangeArgs(BirthDay - 1, DateAt(1, 10), None, None) }

EraSpanArgs ==
    { RangeArgs(BirthDay, DateAt(1, 10), None, LEFT),
      RangeArgs(DateAt(1, 10), DateAt(2, 40), HintRight, None),
      RangeArgs(DateAt(1, 10), DateAt(2, 40), HintRight, LEFT),
      RangeArgs(DateAt(1, 10), LastDay + 1, None, None) }

Init ==
    /\ \E lo \in {0, 1} : Constructed(<<2000, 1, 1>>, lo, 3, 1)
    /\ call = [op |-> "init", dates |-> <<>>, hint |-> None, side |-> None,
               raised |-> "no"]

Next ==
    \/ /\ NumRegistrations < MaxAnnotations
       /\ \E e \in EventArgs :
             AddLifeEvent(e.text, e.date, "red", e.hint, e.side, TRUE)
    \/ /\ NumRegistrations < MaxAnnotations
       /\ \E e \in EraArgs :
             AddEra("a", e.start_date, e.end_date, "red", e.side, 3)
    \/ /\ NumRegistrations < MaxAnnotations
       /\ \E e \in EraSpanArgs :
             AddEraSpan("a", e.start_date, e.end_date, "red", e.hint, e.side,
                        FALSE)
    \/ Draw

Spec == Init /\ [][Next]_vars

(***************************************************************************)
(* SpecDate: the date arithmetic on its own.  The chart is constructed     *)
(* for a birth date around a leap day, a turn of the year or a century,    *)
(* with max_age up to MaxAge, and one date from two days before the birth  *)
(* date to two days after the last accepted date is handed to              *)
(* __validate_date or to __to_date_position, as the tests call them.       *)
(***************************************************************************)
BirthDates ==
    { <<y, md[1], md[2]>> :
        y \in {1896, 1999, 2000, 2001},
        md \in {<<1, 1>>, <<2, 28>>, <<2, 29>>, <<3, 1>>, <<12, 31>>} }

IsDate(d) == d[3] <= DaysInMonth(d[1], d[2])

InitDate ==
    \E b \in {d \in BirthDates : IsDate(d)}, hi \in 1..MaxAge :
        /\ Constructed(b, 0, hi, 1)
        /\ \E date \in (Ordinal(b) - 2)..(Ordinal(AddYears(b, hi)) + 2) :
              call = [op |-> "input", dates |-> <<date>>, hint |-> None,
                      side |-> None, raised |-> "no"]

\* g._Lifegraph__validate_date(date)
CallValidateDate ==
    /\ call.op = "input"
    /\ call' = [call EXCEPT !.op = "validate_date",
                            !.raised = IF ValidateDateRaises(call.dates[1])
                                       THEN "ValueError" ELSE "no"]
    /\ UNCHANGED <<chart, styling, files, stored, records, layout, registered>>

\* g._Lifegraph__to_date_position(date)
CallToDatePosition ==
    /\ call.op = "input"
    /\ call' = [op |-> "to_date_position", dates |-> call.dates,
                hint |-> None, side |-> None, raised |-> "no",
                position |-> ToDatePosition(call.dates[1])]
    /\ UNCHANGED <<chart, styling, files, stored, records, layout, registered>>

NextDate == CallValidateDate \/ CallToDatePosition

SpecDate == InitDate /\ [][NextDate]_vars

(***************************************************************************)
(* Claims about the date mapping, checked under SpecDate.                  *)
(***************************************************************************)
Positioned == call.op = "to_date_position"
Accepted == ~ValidateDateRaises(call.dates[1])

\* the number of birth-date anniversaries up to and including date
WholeYearsElapsed(date) ==
    Cardinality({n \in 1..(MaxAge + 1) : Ordinal(AddYears(birthdate, n)) <= date})

\* C3: for every accepted date the row returned by __to_date_position is
\* the number of whole calendar years elapsed since the birth date.
C3_RowIsWholeYearsElapsed ==
    (Positioned /\ Accepted)
        => call.position.y = WholeYearsElapsed(call.dates[1])

\* C4: the birth date maps to (column 1, row 0), the birth date plus 7 days
\* to (column 2, row 0), and the birth date plus one calendar year (Feb 29
\* advancing to Feb 28) to (column 1, row 1).
C4_DateMappingBoundary ==
    Positioned =>
        /\ call.dates[1] = Ordinal(birthdate)
              => (call.position.x = 1 /\ call.position.y = 0)
        /\ call.dates[1] = Ordinal(birthdate) + 7
              => (call.position.x = 2 /\ call.position.y = 0)
        /\ call.dates[1] = Ordinal(AddYears(birthdate, 1))
              => (call.position.x = 1 /\ call.position.y = 1)

\* a leap-day birth date positioned on the Feb 28 one year later
C4_Witness ==
    /\ Positioned
    /\ birthdate = <<2000, 2, 29>>
    /\ call.dates[1] = Ordinal(<<2001, 2, 28>>)
    /\ call.position.x = 1
    /\ call.position.y = 1

\* C5: for every date accepted by __validate_date the column computed by
\* __to_date_position is an integer from 1 to 52.
C5_ColumnInRange ==
    (Positioned /\ Accepted) => call.position.x \in 1..52

\* an accepted date that lies before the start of the row it is given (the
\* week count is negative) and one in the 53rd week of its row
C5_Witness ==
    /\ Positioned
    /\ Accepted
    /\ \/ call.dates[1] < Ordinal(AddYears(birthdate, call.position.y))
       \/ call.dates[1] - Ordinal(AddYears(birthdate, call.position.y)) >= 364

\* C6: for every date accepted by __validate_date the row computed by
\* __to_date_position is at least 0 and strictly less than max_age.
C6_RowBelowMaxAge ==
    (Positioned /\ Accepted)
        => (call.position.y >= 0 /\ call.position.y < ymax)

\* the birth-date anniversary that opens the year of life date falls in
LastAnniversary(date) == Ordinal(AddYears(birthdate, WholeYearsElapsed(date)))

\* C16: an accepted date 364 or more days after the most recent birth-date
\* anniversary (the 53rd, partial week of a year of life) is given column 1
\* and the row of that same year of life, not the next row.
C16_Week53FoldsIntoSameRow ==
    (Positioned /\ Accepted
       /\ call.dates[1] - LastAnniversary(call.dates[1]) >= 364)
        => /\ call.position.x = 1
           /\ call.position.y = WholeYearsElapsed(call.dates[1])

(***************************************************************************)
(* SpecNew: the constructor on its own, called with a birth date or None   *)
(* and with every min_age from -1 to one above MaxAge against every        *)
(* max_age up to MaxAge.                                                   *)
(***************************************************************************)
InitNew ==
    /\ birthdate = None
    /\ min_age = None
    /\ ymin = None
    /\ ymax = None
    /\ label_space_epsilon = None
    /\ size = None
    /\ dpi = None
    /\ xaxis_label = None
    /\ yaxis_label = None
    /\ otherParams = None
    /\ annotations = None
    /\ eras = None
    /\ era_spans = None
    /\ event_records = None
    /\ era_records = None
    /\ era_span_records = None
    /\ visible = None
    /\ left = None
    /\ right = None
    /\ final = None
    /\ shaded = None
    /\ passes = None
    /\ config = None
    /\ loaded = None
    /\ registered = None
    /\ call = [op |-> "new"]

NextNew ==
    \E b \in {None, <<1999, 12, 31>>, <<2000, 2, 29>>},
       sz \in {"A3", "A4"}, d \in {100, 300},
       hi \in 0..MaxAge, lo \in (0 - 1)..(MaxAge + 1) :
        NewLifegraph(b, sz, d, 1, hi, lo)

SpecNew == InitNew /\ [][NextNew]_vars

\* C12: the constructor raises ValueError when min_age < 0 or
\* min_age >= max_age, and a constructed chart has 0 <= min_age < max_age,
\* ymin = min_age - 0.5 and ymax = max_age.
C12_ConstructorValidatesWindow ==
    call.op = "Lifegraph" =>
        /\ (call.min_age < 0 \/ call.min_age >= call.max_age)
              => call.raised = "ValueError"
        /\ call.raised = "no"
              => /\ min_age = call.min_age
                 /\ 0 <= min_age
                 /\ min_age < ymax
                 /\ ymin = Units(min_age) - Half(Units(1))
                 /\ ymax = call.max_age

\* a chart constructed with the largest min_age its max_age allows
C12_Witness ==
    /\ call.op = "Lifegraph"
    /\ call.raised = "no"
    /\ min_age > 0
    /\ min_age = ymax - 1

(***************************************************************************)
(* Claims about registration and the render pass, checked under Spec.      *)
(***************************************************************************)
Drawn == call.op = "draw"
Registering == call.op \in {"add_life_event", "add_era", "add_era_span"}
InSeq(i, lst) == \E p \in 1..Len(lst) : lst[p] = i

\* two boxes at least gap apart along one axis
SeparatedBy(b1, b2, gap) ==
    \/ BboxXmin(b1) - BboxXmax(b2) >= gap
    \/ BboxXmin(b2) - BboxXmax(b1) >= gap
    \/ BboxYmin(b1) - BboxYmax(b2) >= gap
    \/ BboxYmin(b2) - BboxYmax(b1) >= gap

\* C1: after layout every two labels of the same partition have boxes that
\* do not overlap and are at least label_space_epsilon apart.
C1_NoOverlapAfterResolve ==
    Drawn =>
        \A part \in {left, right} :
            \A p, q \in 1..Len(part) :
                p < q => SeparatedBy(annotations[part[p]].bbox,
                                     annotations[part[q]].bbox,
                                     label_space_epsilon)

\* C2: a render pass that directly follows a render pass leaves every
\* annotation's position, box and relpos and both partitions as they were.
C2_SecondPassSameLayout ==
    [][(call.op = "draw" /\ call'.op = "draw")
          => (annotations' = annotations /\ left' = left /\ right' = right)]_vars

DateOutOfRange(date) ==
    date < Ordinal(birthdate) \/ date > Ordinal(AddYears(birthdate, ymax))

C8_SideLeftEndsLeft ==
    Drawn =>
        \A p \in 1..Len(visible) :
            LET i == visible[p]
                a == annotations[i]
            IN  registered[i].side = LEFT =>
                    /\ InSeq(i, left)
                    /\ a.relpos = Relpos(2, 1)
                    /\ BboxXmax(a.bbox) = LeftEdge
                    /\ a.x = LeftEdge - BboxWidth(a.bbox)

\* C9: after a render pass the annotations handed to layout are exactly
\* those with no source_y_range or with hi >= min_age and lo < max_age, and
\* an event was handed over exactly when its row is in [min_age, max_age).
C9_VisibleIffSourceInWindow ==
    Drawn =>
        \A i \in 1..Len(annotations) :
            LET a == annotations[i]
                row == ToDatePosition(registered[i].dates[1]).y
            IN  /\ InSeq(i, visible)
                     <=> \/ a.source_y_range = None
                         \/ (a.source_y_range.hi >= min_age
                             /\ a.source_y_range.lo < ymax)
                /\ registered[i].op = "add_life_event"
                     => (InSeq(i, visible) <=> (row >= min_age /\ row < ymax))

\* one event in the first row of the window was laid out, one event in the
\* row above the window was not
C9_Witness ==
    /\ Drawn
    /\ \E i, j \in 1..Len(annotations) :
          /\ registered[i].op = "add_life_event"
          /\ registered[j].op = "add_life_event"
          /\ annotations[i].source_y_range.lo = min_age
          /\ InSeq(i, visible)
          /\ annotations[j].source_y_range.hi = min_age - 1
          /\ ~InSeq(j, visible)

OutOfWindow(a) ==
    /\ a.source_y_range # None
    /\ (a.source_y_range.hi < min_age \/ a.source_y_range.lo >= ymax)

SameRegistration(a, b) ==
    /\ a.date = b.date
    /\ a.text = b.text
    /\ a.color = b.color
    /\ a.event_point = b.event_point
    /\ a.marker = b.marker
    /\ a.source_y_range = b.source_y_range

\* C10: a render pass adds, removes and reorders nothing in annotations,
\* eras, era_spans and the registration records, and an annotation whose
\* source rows lie outside the window is not handed to layout and keeps its
\* position and box.
C10_RenderKeepsOutOfWindow ==
    [][call'.op = "draw" =>
          /\ Len(annotations') = Len(annotations)
          /\ \A i \in 1..Len(annotations) :
                /\ SameRegistration(annotations[i], annotations'[i])
                /\ OutOfWindow(annotations[i])
                      => (~InSeq(i, visible') /\ annotations'[i] = annotations[i])
          /\ eras' = eras
          /\ era_spans' = era_spans
          /\ event_records' = event_records
          /\ era_records' = era_records
          /\ era_span_records' = era_span_records]_vars

\* after a second render pass an out-of-window annotation is still stored,
\* never measured, beside one that was laid out
C10_Witness ==
    /\ Drawn
    /\ passes > 1
    /\ \E i, j \in 1..Len(annotations) :
          /\ OutOfWindow(annotations[i])
          /\ annotations[i].bbox = None
          /\ InSeq(j, visible)
          /\ annotations[j].bbox # None

\* C11: add_life_event and add_era_span given both a hint and a side raise
\* ValueError in the call itself, so no stored annotation (and none a render
\* pass lays out) comes from a call that was given both.
C11_HintAndSideRaiseAtRegistration ==
    /\ (call.op \in {"add_life_event", "add_era_span"}
           /\ call.hint # None /\ call.side # None)
          => call.raised = "ValueError"
    /\ \A i \in 1..Len(annotations) :
          ~(registered[i].hint # None /\ registered[i].side # None)

\* a render pass laid out a label after a call with both a hint and a side
\* had been rejected
C11_Witness ==
    /\ Drawn
    /\ Len(visible) > 0
    /\ \/ \E k \in 1..Len(event_records) :
              event_records[k].hint # None /\ event_records[k].side # None
       \/ \E k \in 1..Len(era_span_records) :
              era_span_records[k].hint # None /\ era_span_records[k].side # None

(***************************************************************************)
(* SpecSameDate: up to MaxSameDate events, all on one date of a visible    *)
(* row and all without hint and side, with labels of either height, and    *)
(* render passes.                                                          *)
(***************************************************************************)
InitSameDate ==
    /\ \E lo \in {0, 1}, eps \in {1, 4} : Constructed(<<2000, 1, 1>>, lo, 3, eps)
    /\ call = [op |-> "init", dates |-> <<>>, hint |-> None, side |-> None,
               raised |-> "no"]

AddSameDateEvent ==
    /\ Len(event_records) < MaxSameDate
    /\ \E text \in Texts, date \in {DateAt(1, 10), DateAt(2, 40)} :
          /\ event_records # <<>> => date = event_records[1].date
          /\ AddLifeEvent(text, date, "red", None, None, TRUE)

NextSameDate == AddSameDateEvent \/ Draw

SpecSameDate == InitSameDate /\ [][NextSameDate]_vars

\* C13: n >= 2 events registered on the same date without hint or side
\* come out of every layout as n labels, no two of them overlapping, each
\* lower (larger y) than the one registered before it.
C13_SameDateLabelsStackDownwards ==
    (Drawn /\ Len(annotations) >= 2) =>
        /\ Len(final) = Len(annotations)
        /\ \A i, j \in 1..Len(annotations) :
              i < j => /\ ~Overlaps(annotations[i], annotations[j])
                       /\ annotations[i].y < annotations[j].y

(***************************************************************************)
(* SpecAxis: format_x_axis and format_y_axis called in any order on a      *)
(* constructed chart, each argument given or left out.  Positions are in   *)
(* hundredths of the axes' width and height.                               *)
(***************************************************************************)
AxisTexts == {None, Some("Weeks")}
AxisPositions == {None, Some(50)}
AxisColors == {None, Some("red")}
AxisFontsizes == {None, Some(14)}

InitAxis ==
    /\ Constructed(<<2000, 1, 1>>, 0, 3, 1)
    /\ call = [op |-> "init", args |-> None, raised |-> "no"]

CallFormatXAxis ==
    \E text \in AxisTexts, positionx \in AxisPositions,
       positiony \in AxisPositions, color \in AxisColors,
       fontsize \in AxisFontsizes :
        FormatXAxis(text, positionx, positiony, color, fontsize)

CallFormatYAxis ==
    \E text \in AxisTexts, positionx \in AxisPositions,
       positiony \in AxisPositions, color \in AxisColors,
       fontsize \in AxisFontsizes :
        FormatYAxis(text, positionx, positiony, color, fontsize)

NextAxis == CallFormatXAxis \/ CallFormatYAxis

SpecAxis == InitAxis /\ [][NextAxis]_vars

\* the value an attribute has after a call that was given arg for it
Given(arg, previous) == IF arg # None THEN arg.some ELSE previous

\* C19: format_x_axis changes exactly the x-axis attributes (text, position
\* x, position y, colour, font size) whose arguments are not None; every
\* attribute left out and every y-axis attribute keeps its value; and the
\* same for format_y_axis with the axes exchanged.
C19_FormatAxisChangesOnlyGiven ==
    [][/\ call'.op = "format_x_axis" =>
             LET a == call'.args
                 q == otherParams
             IN  /\ xaxis_label' = Given(a.text, xaxis_label)
                 /\ otherParams'.xlabel_position
                       = <<Given(a.positionx, q.xlabel_position[1]),
                           Given(a.positiony, q.xlabel_position[2])>>
                 /\ otherParams'.xlabel_color
                       = (IF a.color # None THEN a.color ELSE q.xlabel_color)
                 /\ otherParams'.xlabel_fontsize
                       = (IF a.fontsize # None THEN a.fontsize
                          ELSE q.xlabel_fontsize)
                 /\ yaxis_label' = yaxis_label
                 /\ otherParams'.ylabel_position = q.ylabel_position
                 /\ otherParams'.ylabel_color = q.ylabel_color
                 /\ otherParams'.ylabel_fontsize = q.ylabel_fontsize
       /\ call'.op = "format_y_axis" =>
             LET a == call'.args
                 q == otherParams
             IN  /\ yaxis_label' = Given(a.text, yaxis_label)
                 /\ otherParams'.ylabel_position
                       = <<Given(a.positionx, q.ylabel_position[1]),
                           Given(a.positiony, q.ylabel_position[2])>>
                 /\ otherParams'.ylabel_color
                       = (IF a.color # None THEN a.color ELSE q.ylabel_color)
                 /\ otherParams'.ylabel_fontsize
                       = (IF a.fontsize # None THEN a.fontsize
                          ELSE q.ylabel_fontsize)
                 /\ xaxis_label' = xaxis_label
                 /\ otherParams'.xlabel_position = q.xlabel_position
                 /\ otherParams'.xlabel_color = q.xlabel_color
                 /\ otherParams'.xlabel_fontsize = q.xlabel_fontsize]_vars

\* format_x_axis was called with only a colour on a chart whose x label
\* text, position and font size and whose y label had been changed before,
\* and all of them are still as they were set
C19_Witness ==
    /\ call.op = "format_x_axis"
    /\ call.args = AxisArgs(None, None, None, Some("red"), None)
    /\ xaxis_label = "Weeks"
    /\ otherParams.xlabel_position = <<50, 50>>
    /\ otherParams.xlabel_fontsize = Some(14)
    /\ otherParams.xlabel_color = Some("red")
    /\ yaxis_label = "Weeks"
    /\ otherParams.ylabel_position = <<-3, 50>>

(***************************************************************************)
(* SpecConfig: a chart is constructed, events, eras and era spans are      *)
(* registered with hints given as tuples and as Points, inside the grid    *)
(* and right of it, with sides and with each per-kind flag at and off its  *)
(* default, the axis labels are formatted, and the chart is saved with     *)
(* save_config and read back with from_config.                             *)
(***************************************************************************)
HintInGrid == Point(Units(30), Units(2))
TupleHintInGrid == TupleHint(Units(30), Units(2))

ConfigArgs(date, hint, side, flag) ==
    [date |-> date, hint |-> hint, side |-> side, flag |-> flag]

ConfigEventArgs ==
    { ConfigArgs(DateAt(1, 10), None, None, TRUE),
      ConfigArgs(DateAt(1, 10), None, LEFT, FALSE),
      ConfigArgs(DateAt(2, 40), TupleHintInGrid, None, TRUE),
      ConfigArgs(DateAt(2, 40), HintInGrid, None, TRUE),
      ConfigArgs(DateAt(2, 40), HintRight, None, TRUE),
      ConfigArgs(DateAt(1, 10), HintRight, LEFT, TRUE) }

ConfigRangeArgs(start_date, end_date, hint, side, flag) ==
    [start_date |-> start_date, end_date |-> end_date, hint |-> hint,
     side |-> side, flag |-> flag]

ConfigEraArgs ==
    { ConfigRangeArgs(BirthDay, DateAt(1, 10), None, RIGHT, 3),
      ConfigRangeArgs(DateAt(1, 10), DateAt(2, 40), None, None, 5) }

ConfigEraSpanArgs ==
    { ConfigRangeArgs(DateAt(1, 10), DateAt(2, 40), HintRight, None, TRUE),
      ConfigRangeArgs(BirthDay, DateAt(1, 10), None, LEFT, FALSE) }

IsConstructed == call.op # "new"

NextConfig ==
    \/ \E lo \in {0, 1}, sd \in {<<"A3", 300>>, <<"A4", 100>>} :
          NewLifegraph(<<2000, 1, 1>>, sd[1], sd[2], 1, 3, lo)
    \/ /\ IsConstructed
       /\ NumRegistrations < MaxAnnotations
       /\ \E e \in ConfigEventArgs :
             AddLifeEvent("a", e.date, "red", e.hint, e.side, e.flag)
    \/ /\ IsConstructed
       /\ NumRegistrations < MaxAnnotations
       /\ \E e \in ConfigEraArgs :
             AddEra("a/b", e.start_date, e.end_date, "blue", e.side, e.flag)
    \/ /\ IsConstructed
       /\ NumRegistrations < MaxAnnotations
       /\ \E e \in ConfigEraSpanArgs :
             AddEraSpan("a", e.start_date, e.end_date, "red", e.hint, e.side,
                        e.flag)
    \/ /\ IsConstructed
       /\ config = None
       /\ FormatXAxis(Some("Weeks"), None, None, Some("red"), None)
    \/ /\ IsConstructed
       /\ config = None
       /\ FormatYAxis(None, Some(50), Some(50), None, Some(14))
    \/ /\ IsConstructed
       /\ config = None
       /\ \E include_styling \in BOOLEAN : SaveConfig(include_styling)
    \/ /\ IsConstructed
       /\ loaded = None
       /\ call.op # "from_config"
       /\ \E apply_styling \in BOOLEAN : FromConfig(apply_styling)

SpecConfig == InitNew /\ [][NextConfig]_vars

Loaded == call.op = "from_config" /\ call.raised = "no"

IsEventCall(c) == c.op = "add_life_event"
IsEraCall(c) == c.op = "add_era"
IsEraSpanCall(c) == c.op = "add_era_span"

\* a hint of a record has the x and y of the hint the caller passed
SameHint(h, passed) ==
    IF passed = None THEN h = None
    ELSE h # None /\ h.x = passed.x /\ h.y = passed.y

\* C14: save_config writes one entry for every registration record, and
\* from_config yields as many records, whose text, date(s), colour, hint (x
\* and y as the caller supplied them), side and flag (color_square, alpha,
\* color_start_and_end_markers) are those passed to the registration calls.
C14_RegistrationsRoundTrip ==
    /\ call.op = "save_config" =>
          /\ Len(Get(config, "events", <<>>)) = Len(event_records)
          /\ Len(Get(config, "eras", <<>>)) = Len(era_records)
          /\ Len(Get(config, "era_spans", <<>>)) = Len(era_span_records)
    /\ Loaded =>
          LET ev == SelectSeq(registered, IsEventCall)
              er == SelectSeq(registered, IsEraCall)
              sp == SelectSeq(registered, IsEraSpanCall)
          IN  /\ Len(loaded.event_records) = Len(Get(config, "events", <<>>))
              /\ Len(loaded.era_records) = Len(Get(config, "eras", <<>>))
              /\ Len(loaded.era_span_records)
                    = Len(Get(config, "era_spans", <<>>))
              /\ \A k \in 1..Len(loaded.event_records) :
                    LET r == loaded.event_records[k]
                    IN  /\ r.text = ev[k].text
                        /\ r.date = ev[k].dates[1]
                        /\ r.color = ev[k].color
                        /\ SameHint(r.hint, ev[k].hint)
                        /\ r.side = ev[k].side
                        /\ r.color_square = ev[k].flag
              /\ \A k \in 1..Len(loaded.era_records) :
                    LET r == loaded.era_records[k]
                    IN  /\ r.text = er[k].text
                        /\ <<r.start_date, r.end_date>> = er[k].dates
                        /\ r.color = er[k].color
                        /\ r.side = er[k].side
                        /\ r.alpha = er[k].flag
              /\ \A k \in 1..Len(loaded.era_span_records) :
                    LET r == loaded.era_span_records[k]
                    IN  /\ r.text = sp[k].text
                        /\ <<r.start_date, r.end_date>> = sp[k].dates
                        /\ r.color = sp[k].color
                        /\ SameHint(r.hint, sp[k].hint)
                        /\ r.side = sp[k].side
                        /\ r.color_start_and_end_markers = sp[k].flag

\* C17: the chart from_config returns has the birth date, max_age, min_age,
\* paper size, dpi and label_space_epsilon of the chart that was saved.
C17_ChartConfigurationRoundTrips ==
    Loaded =>
        /\ loaded.chart.birthdate = birthdate
        /\ loaded.chart.ymax = ymax
        /\ loaded.chart.min_age = min_age
        /\ loaded.chart.size = size
        /\ loaded.chart.dpi = dpi
        /\ loaded.chart.label_space_epsilon = label_space_epsilon

(***************************************************************************)
(* SpecCore: the registration calls of Spec made against core.py as it     *)
(* stands, and render passes.                                              *)
(***************************************************************************)
NextCore ==
    \/ /\ NumRegistrations < MaxAnnotations
       /\ \E e \in EventArgs :
             AddLifeEventAsBuilt(e.text, e.date, "red", e.hint, e.side, TRUE)
    \/ /\ NumRegistrations < MaxAnnotations
       /\ \E e \in EraArgs :
             AddEraAsBuilt("a", e.start_date, e.end_date, "red", e.side, 3)
    \/ /\ NumRegistrations < MaxAnnotations
       /\ \E e \in EraSpanArgs :
             AddEraSpanAsBuilt("a", e.start_date, e.end_date, "red", e.hint,
                               e.side, FALSE)
    \/ Draw

SpecCore == Init /\ [][NextCore]_vars

\* C15: every add_life_event, add_era or add_era_span call whose dates are
\* in range and that is not given both a hint and a side returns without
\* raising and appends exactly one Annotation (add_era also exactly one Era,
\* add_era_span exactly one EraSpan), whose source_y_range is the grid row
\* or rows of the call's dates.
C15_RegistrationStoresAnnotation ==
    [][(/\ call'.op \in {"add_life_event", "add_era", "add_era_span"}
        /\ \A k \in 1..Len(call'.dates) : ~DateOutOfRange(call'.dates[k])
        /\ ~(call'.hint # None /\ call'.side # None))
          => /\ call'.raised = "no"
             /\ Len(annotations') = Len(annotations) + 1
             /\ SubSeq(annotations', 1, Len(annotations)) = annotations
             /\ LET a == annotations'[Len(annotations')]
                     n == Len(call'.dates)
                 IN  a.source_y_range
                       = [lo |-> ToDatePosition(call'.dates[1]).y,
                          hi |-> ToDatePosition(call'.dates[n]).y]
             /\ Len(eras') = Len(eras)
                              + (IF call'.op = "add_era" THEN 1 ELSE 0)
             /\ Len(era_spans') = Len(era_spans)
                              + (IF call'.op = "add_era_span" THEN 1 ELSE 0)]_vars

(***************************************************************************)
(* SpecEras: eras between any two of five dates of the accepted range,     *)
(* among them the birth date and the last accepted date, on a chart whose  *)
(* window opens at row 0, 1 or 2, and render passes.                       *)
(***************************************************************************)
EraDates == {BirthDay, DateAt(1, 10), DateAt(1, 40), DateAt(2, 40), LastDay}

InitEras ==
    /\ \E lo \in {0, 1, 2} : Constructed(<<2000, 1, 1>>, lo, 3, 1)
    /\ call = [op |-> "init", dates |-> <<>>, hint |-> None, side |-> None,
               raised |-> "no"]

CallAddEra ==
    /\ Len(eras) < MaxAnnotations
    /\ \E start_date \in EraDates, end_date \in EraDates :
          AddEraAsBuilt("a", start_date, end_date, "red", None, 3)

NextEras == CallAddEra \/ Draw

SpecEras == InitEras /\ [][NextEras]_vars

\* the rows in which the last render pass shaded a span of era i
ShadedRows(i) == { span.row : span \in shaded[i] }

\* C18: the rows __draw_eras shades for a registered era are exactly the
\* rows r with max(start row, min_age) <= r <= min(end row, max_age - 1):
\* an era crossing the window's boundary is clipped to the window, an era
\* entirely outside it shades nothing, and no row outside
\* [min_age, max_age) is shaded.
C18_ErasShadeClippedRows ==
    \A i \in 1..Len(shaded) :
        /\ ShadedRows(i) =
               { r \in 0..(MaxAge + 1) :
                    /\ Max(eras[i].start.y, min_age) <= r
                    /\ r <= Min(eras[i].end.y, ymax - 1) }
        /\ ShadedRows(i) \subseteq min_age..(ymax - 1)
        /\ (eras[i].end.y < min_age \/ eras[i].start.y >= ymax)
              => shaded[i] = {}

\* a pass has drawn an era clipped at both ends of the window and an era
\* entirely above the window
C18_Witness ==
    /\ Drawn
    /\ \E i, j \in 1..Len(shaded) :
          /\ eras[i].start.y < min_age
          /\ eras[i].end.y >= ymax
          /\ ShadedRows(i) = min_age..(ymax - 1)
          /\ eras[j].end.y < min_age
          /\ shaded[j] = {}

(***************************************************************************)
(* SpecOrder: up to MaxOrdered events on dates of three rows, in either    *)
(* half of a row, two of them with a side that overrides the half, on a    *)
(* chart whose window opens at row 0 or 1, and render passes.              *)
(***************************************************************************)
OrderArgs ==
    { Args(d, None, None, "a") :
        d \in {BirthDay, DateAt(1, 10), DateAt(1, 30), DateAt(1, 40)} }
    \cup { Args(DateAt(1, 10), None, RIGHT, "a/b"),
           Args(DateAt(2, 40), None, LEFT, "a/b") }

CallAddOrdered ==
    /\ Len(annotations) < MaxOrdered
    /\ \E e \in OrderArgs :
          AddLifeEvent(e.text, e.date, "red", e.hint, e.side, TRUE)

NextOrder == CallAddOrdered \/ Draw

SpecOrder == Init /\ [][NextOrder]_vars

\* the labels of lst stand in ascending order of <<row, col>> of their
\* event points, col counted negatively when negated is TRUE, and labels
\* with equal event points in the order of registration
InKeyOrder(lst, anns, negated) ==
    \A p, q \in 1..Len(lst) :
        p < q =>
            LET e1 == anns[lst[p]].event_point
                e2 == anns[lst[q]].event_point
                c1 == IF negated THEN 0 - e1.x ELSE e1.x
                c2 == IF negated THEN 0 - e2.x ELSE e2.x
            IN  \/ e1.y < e2.y
                \/ e1.y = e2.y /\ c1 < c2
                \/ e1.y = e2.y /\ c1 = c2 /\ lst[p] < lst[q]

PlaceHintXs == {-41, -40, -26, -1, 42, 104, 216, 228, 248, 249}

PlaceEventArgs ==
    { Args(DateAt(1, 10), Point(x, Units(2)), None, "a") : x \in PlaceHintXs }
    \cup { Args(DateAt(1, 10), Point(42, 0), None, "a"),
           Args(DateAt(1, 10), TupleHint(42, Units(4)), None, "a"),
           Args(DateAt(1, 25), None, None, "a"),
           Args(DateAt(1, 26), None, None, "a"),
           Args(DateAt(2, 40), None, LEFT, "a") }

PlaceEraArgs ==
    { RangeArgs(BirthDay, DateAt(1, 10), None, None),
      RangeArgs(DateAt(1, 5), DateAt(1, 10), None, LEFT) }

PlaceEraSpanArgs ==
    { RangeArgs(DateAt(1, 5), DateAt(1, 10), None, None),
      RangeArgs(DateAt(1, 30), DateAt(2, 40), None, None) }

InitPlace ==
    /\ Constructed(<<2000, 1, 1>>, 1, 3, 1)
    /\ call = [op |-> "init", dates |-> <<>>, hint |-> None, side |-> None,
               raised |-> "no"]

NextPlace ==
    \/ /\ Len(annotations) < MaxAnnotations
       /\ \E e \in PlaceEventArgs :
             AddLifeEvent(e.text, e.date, "red", e.hint, e.side, TRUE)
    \/ /\ Len(annotations) < MaxAnnotations
       /\ \E e \in PlaceEraArgs :
             AddEra("a", e.start_date, e.end_date, "red", e.side, 3)
    \/ /\ Len(annotations) < MaxAnnotations
       /\ \E e \in PlaceEraSpanArgs :
             AddEraSpan("a", e.start_date, e.end_date, "red", e.hint, e.side,
                        FALSE)
    \/ Draw

SpecPlace == InitPlace /\ [][NextPlace]_vars

\* C21: a visible annotation registered without hint and without side is
\* in the left partition if the grid point it refers to is in the left
\* half of its row (column below 26), and in the right partition
\* otherwise.
C21_DefaultSideByHalfOfRow ==
    Drawn =>
        \A p \in 1..Len(visible) :
            LET i == visible[p]
            IN  (registered[i].hint = None /\ registered[i].side = None) =>
                    IF annotations[i].event_point.x < Units(26)
                    THEN InSeq(i, left) /\ ~InSeq(i, right)
                    ELSE InSeq(i, right) /\ ~InSeq(i, left)

\* the label stands in a row band of the window when the pass measures it
InBand(a) == a.y >= Units(min_age) /\ a.y <= Units(ymax)

\* C22: after step 1 of layout no annotation whose label y is within the
\* visible row range has its x strictly inside the grid body
\* (xmin < x < xmax), whatever hint was given at registration.
C22_NoLabelInsideGrid ==
    [][call'.op = "draw" =>
          \A p \in 1..Len(visible') :
              LET i == visible'[p]
              IN  InBand(annotations[i]) =>
                      ~(xmin < annotations'[i].x
                        /\ annotations'[i].x < Units(xmax))]_vars

\* C23, as stated: after layout every returned annotation has the relpos
\* of the band its label y is in: (0, 0.5) in the visible range and the
\* right partition, (1, 0.5) in the visible range and the left partition,
\* (0.5, 0) above the range (y < min_age), (0.5, 1) below it
\* (y > max_age), and labels above or below the range are in the right
\* partition.
C23_RelposByBandAfterLayout ==
    Drawn =>
        \A p \in 1..Len(final) :
            LET i == final[p]
                a == annotations[i]
            IN  /\ (InBand(a) /\ InSeq(i, right)) => a.relpos = <<0, 1>>
                /\ (InBand(a) /\ InSeq(i, left)) => a.relpos = <<2, 1>>
                /\ a.y < Units(min_age)
                      => (a.relpos = <<1, 0>> /\ InSeq(i, right))
                /\ a.y > Units(ymax)
                      => (a.relpos = <<1, 2>> /\ InSeq(i, right))

\* C23, amended: the band is the one of the label y the annotation enters
\* the pass with; greedy separation may move the label below the range
\* afterwards without changing its relpos or its partition.
C23_RelposByBandAtStepOne ==
    [][call'.op = "draw" =>
          \A p \in 1..Len(final') :
              LET i == final'[p]
                  a == annotations[i]
                  relpos == annotations'[i].relpos
              IN  /\ (InBand(a) /\ InSeq(i, right')) => relpos = <<0, 1>>
                  /\ (InBand(a) /\ InSeq(i, left')) => relpos = <<2, 1>>
                  /\ a.y < Units(min_age)
                        => (relpos = <<1, 0>> /\ InSeq(i, right'))
                  /\ a.y > Units(ymax)
                        => (relpos = <<1, 2>> /\ InSeq(i, right'))]_vars

\* a pass has returned a label of the left partition and a label that
\* was registered below the window
C23_Witness ==
    /\ Drawn
    /\ \E i, j \in 1..Len(annotations) :
          /\ InSeq(i, left)
          /\ annotations[i].relpos = <<2, 1>>
          /\ InSeq(j, right)
          /\ registered[j].hint # None
          /\ registered[j].hint.y > Units(ymax)
          /\ annotations[j].relpos = <<1, 2>>

(***************************************************************************)
(* SpecSeparate: greedy separation (step 3 of layout) of one partition,    *)
(* one comparison at a time.  The partition is a list of up to             *)
(* MaxSeparated labels as steps 1 and 2 leave them: any order of labels    *)
(* one or two rows high, at the right edge or a label's width right of     *)
(* it, on, a quarter below and a row below row 1; label_space_epsilon is   *)
(* negative, zero, a quarter or a whole row.  call.k is the place of       *)
(* `unchecked` in the list, call.j the number of members of _f it has      *)
(* been compared with, and final is _f.                                    *)
(***************************************************************************)
SeparateEpsilons == {-1, 0, 1, 4}

Label(x, y, text) ==
    InitialPosition(Annotation(BirthDay, text, Point(x, y), "red",
                               Point(x, y), TRUE, None)).a

Labels ==
    { Label(x, p[1], p[2]) :
        x \in {RightEdge, RightEdge + TextWidth("a") + 4},
        p \in {<<Units(1), "a">>, <<Units(2), "a">>, <<Units(1) + 1, "a/b">>} }

InitSeparate ==
    /\ \E eps \in SeparateEpsilons : Constructed(<<2000, 1, 1>>, 0, 3, eps)
    /\ call = [op |-> "init"]

\* steps 1 and 2 have left the partition lst
SeparateBegin ==
    /\ call.op = "init"
    /\ \E n \in 1..MaxSeparated :
          \E lst \in [1..n -> Labels] :
              /\ annotations' = lst
              /\ visible' = [i \in 1..n |-> i]
              /\ left' = [i \in 1..n |-> i]
    /\ call' = [op |-> "begin", k |-> 1, j |-> 0]
    /\ UNCHANGED <<chart, styling, files, eras, era_spans, records, right,
                   final, shaded, passes, registered>>

\* one turn of "for checked in _f" (lifegraph.py:832-839)
SeparateCompare ==
    /\ call.op \in {"begin", "compare", "append"}
    /\ call.k <= Len(left)
    /\ call.j < Len(final)
    /\ LET i == left[call.k]
           c == final[call.j + 1]
           corrected == CorrectOverlap(annotations[i], annotations[c])
           nudged == NudgeWithinEpsilon(corrected, annotations[c])
       IN  /\ annotations' = [annotations EXCEPT ![i] = nudged]
           /\ call' = [op |-> "compare", k |-> call.k, j |-> call.j + 1,
                       unchecked |-> i, checked |-> c,
                       before |-> annotations[i], corrected |-> corrected]
    /\ UNCHANGED <<chart, styling, files, eras, era_spans, records, visible,
                   left, right, final, shaded, passes, registered>>

\* _f.append(unchecked) (lifegraph.py:840)
SeparateAppend ==
    /\ call.op \in {"begin", "compare", "append"}
    /\ call.k <= Len(left)
    /\ call.j = Len(final)
    /\ final' = Append(final, left[call.k])
    /\ call' = [op |-> "append", k |-> call.k + 1, j |-> 0]
    /\ UNCHANGED <<chart, styling, files, stored, records, visible, left,
                   right, shaded, passes, registered>>

NextSeparate == SeparateBegin \/ SeparateCompare \/ SeparateAppend

SpecSeparate == InitSeparate /\ [][NextSeparate]_vars

Compared == call.op = "compare"

\* C24: immediately after a candidate has been compared with a placed
\* label that its box overlapped, the candidate's top edge is at least
\* epsilon below the placed label's bottom edge (candidate.ymin >=
\* placed.ymax + epsilon), for every epsilon >= 0.
C24_OverlapCorrectionClears ==
    (Compared /\ label_space_epsilon >= 0
       /\ Overlaps(call.before, annotations[call.checked]))
        => BboxYmin(annotations[call.unchecked].bbox)
              >= BboxYmax(annotations[call.checked].bbox)
                 + label_space_epsilon

\* a candidate two rows high has been moved out of a placed label it
\* overlapped, with a positive epsilon
C24_Witness ==
    /\ Compared
    /\ label_space_epsilon > 0
    /\ Overlaps(call.before, annotations[call.checked])
    /\ call.before.text = "a/b"
    /\ annotations[call.unchecked].y > call.before.y

\* label b is label a moved down by some amount >= 0, box and all
MovedDown(a, b) ==
    /\ b.x = a.x
    /\ b.bbox.x0 = a.bbox.x0
    /\ b.bbox.x1 = a.bbox.x1
    /\ b.y >= a.y
    /\ b.bbox.y0 - b.y = a.bbox.y0 - a.y
    /\ b.bbox.y1 - b.y = a.bbox.y1 - a.y

\* what C25 says of one step of greedy separation
SeparationStepMovesDown ==
    /\ \A i \in 1..Len(annotations) :
          /\ MovedDown(annotations[i], annotations'[i])
          /\ InSeq(i, final) => annotations'[i] = annotations[i]
    /\ call'.op = "compare" =>
          /\ MovedDown(call'.before, call'.corrected)
          /\ MovedDown(call'.corrected, annotations'[call'.unchecked])

\* C25, as stated: during greedy separation a label's x and the x-extent
\* of its box never change, its y never decreases, position and box move
\* by the same vertical amount, and a label appended to the placed list
\* never changes again in that pass.
C25_SeparationOnlyMovesDown ==
    [][call'.op \in {"compare", "append"} => SeparationStepMovesDown]_vars

\* C25, amended: the same on a chart whose label_space_epsilon is >= 0.
C25_SeparationOnlyMovesDownForGap ==
    [][(call'.op \in {"compare", "append"} /\ label_space_epsilon >= 0)
          => SeparationStepMovesDown]_vars

\* the third label of a list has been moved down past two placed labels
C25_Witness ==
    /\ Compared
    /\ label_space_epsilon > 0
    /\ Len(final) = 2
    /\ call.j = 2
    /\ annotations[call.unchecked].y > call.corrected.y
    /\ call.corrected.y > call.before.y

\* a hint x that is already clearly past an edge of the grid
PastAnEdge(x) ==
    \/ (x >= RightEdge /\ x <= Units(xmax) + Units(HintEdge))
    \/ (x >= 0 - Units(HintEdge) /\ x <= LeftEdge)

\* C26: a hint whose y is within the visible row range and whose x is
\* already clearly past an edge (xmax + right offset <= x <= xmax + 10, or
\* -10 <= x <= xmin - left offset) keeps exactly that x through
\* registration and through layout; only its y may change.
C26_HintPastEdgeKeepsX ==
    \A i \in 1..Len(annotations) :
        LET hint == registered[i].hint
        IN  (hint # None /\ hint.y >= Units(min_age) /\ hint.y <= Units(ymax)
               /\ PastAnEdge(hint.x))
                => annotations[i].x = hint.x

\* a pass has laid out a label hinted 10 right of the grid and a label
\* hinted at the left offset
C26_Witness ==
    /\ Drawn
    /\ \E i, j \in 1..Len(annotations) :
          /\ registered[i].hint = Point(Units(xmax) + Units(HintEdge), Units(2))
          /\ InSeq(i, right)
          /\ annotations[i].x = Units(xmax) + Units(HintEdge)
          /\ registered[j].hint = Point(LeftEdge, Units(2))
          /\ InSeq(j, left)
          /\ annotations[j].x = LeftEdge

\* C27: the flat epsilon nudge given to a candidate that is within epsilon
\* of a placed label without overlapping it never makes the candidate's
\* box overlap that placed label, also when the candidate lies above it.
C27_NudgeNeverOverlaps ==
    (Compared
       /\ ~Overlaps(call.corrected, annotations[call.checked])
       /\ IsWithinEpsilonOf(call.corrected, annotations[call.checked],
                            label_space_epsilon))
        => ~Overlaps(annotations[call.unchecked], annotations[call.checked])

\* C28: a registration call that raises leaves annotations, eras,
\* era_spans and the three lists of registration records exactly as they
\* were before the call, so there are always as many records as stored
\* annotations.
C28_RejectedCallLeavesNoTrace ==
    [][(call'.op \in {"add_life_event", "add_era", "add_era_span"}
          /\ call'.raised # "no")
          => /\ UNCHANGED <<stored, records>>
             /\ NumRegistrations' = Len(annotations')]_vars

\* C29: the list __resolve_annotation_conflicts returns is a permutation
\* of the visible annotations handed to it: each of them is in it exactly
\* once, in exactly one of the two partitions, and nothing else is in it.
C29_FinalIsPermutationOfVisible ==
    Drawn =>
        /\ \A p \in 1..Len(visible) :
              /\ Cardinality({q \in 1..Len(final) : final[q] = visible[p]}) = 1
              /\ InSeq(visible[p], left) # InSeq(visible[p], right)
        /\ \A q \in 1..Len(final) : InSeq(final[q], visible)
        /\ \A i \in 1..Len(annotations) :
              InSeq(i, visible) = IsAnnotationVisible(annotations[i])

\* a pass has returned a left and a right label and left out an
\* annotation of a row above the window
C29_Witness ==
    /\ Drawn
    /\ Len(annotations) = 3
    /\ Len(left) = 1
    /\ Len(right) = 1
    /\ \E i \in 1..3 : ~IsAnnotationVisible(annotations[i]) /\ ~InSeq(i, final)

\* C30: the background __draw_eras draws for a visible era covers
\* exactly the grid cells from its start cell to its end cell in row-major
\* order: in the era's first row from the start column on, in its last
\* row up to the end column, so that an era within one row is shaded from
\* its start column to its end column only.
C30_EraShadedFromStartToEndCell ==
    \A i \in 1..Len(shaded) :
        \A span \in shaded[i] :
            /\ span.first = IF span.row = eras[i].start.y
                            THEN eras[i].start.x ELSE 1
            /\ span.last = IF span.row = eras[i].end.y
                           THEN eras[i].end.x ELSE xmax

====
